---- MODULE Spec2Model ----
(***************************************************************************)
(* A model of four pieces of icaruscode:                                   *)
(*                                                                         *)
(*  - CRTT0MatchAlg (CRT hit / TPC track matching): TrackT0Range,          *)
(*    TrackDirection, DistOfClosestApproach, SimpleDCA, GetClosestCRTHit,  *)
(*    T0FromCRTHits and T0AndDCAFromCRTHits.  Specification Spec, and      *)
(*    RangeSpec for TrackT0Range on its own.  Spec runs with fDCAuseBox    *)
(*    off; the box distance (DistToCrtHit, LineSegmentDistance,            *)
(*    CubeIntersection) has the specification BoxSpec.                     *)
(*  - CRTDetSim::produce, the front-end coincidence pass over the taggers. *)
(*    Specification SimSpec.                                               *)
(*  - ChannelMapPostGres, the functions that build the channel maps from   *)
(*    the database.  Specification BuildSpec.                              *)
(*  - PeakFitterICARUS::findPeakParameters.  Specification FitSpec.        *)
(*                                                                         *)
(* Numbers.  The code computes in double; the model computes exactly:      *)
(*  - a time is a whole number of microseconds (the inputs are timestamps  *)
(*    on whole microseconds, so the division by 1e3 is exact);             *)
(*  - the unsigned 64-bit difference of two timestamps is kept as a pair   *)
(*    [wraps, us]: the value wraps * 2^64 ns + us, wraps = 1 when the      *)
(*    subtraction wrapped around;                                          *)
(*  - a quotient by the drift velocity is a numerator over the            *)
(*    denominator |Vd|;                                                    *)
(*  - a distance is kept as its square, a rational [num, den]; lengths    *)
(*    are positions in units of (drift velocity x 1 us).                   *)
(***************************************************************************)
EXTENDS Integers, Sequences, FiniteSets, TLC

\* ---------------------------------------------------------------- bounds
\* Longest CRT hit list handed to the matcher.
MaxHits == 3

\* ------------------------------------------------------ program constants
\* trigger_timestamp % 1'000'000'000
NsPerSecond == 1000000000
\* .../1e3: nanoseconds to microseconds
NsPerUs == 1000
\* if(crtTime<-0.5e6) ... else if(crtTime>0.5e6)
HalfPeriodUs == 500000
\* crtTime+=1e6, crtTime-=1e6
PeriodUs == 1000000
\* t0MinMax.first - 10., t0MinMax.second + 10.
WindowMarginUs == 10
\* makeNULLmc: t0, dca and extrapLen of the null candidate
NullValue == -99999
\* the sentinel of T0AndDCAFromCRTHits
NullPairValue == -9999

\* ---------------------------------------------------------------- vectors
Vec(x, y, z) == <<x, y, z>>

VAdd(a, b) == <<a[1] + b[1], a[2] + b[2], a[3] + b[3]>>

VSub(a, b) == <<a[1] - b[1], a[2] - b[2], a[3] - b[3]>>

Dot(a, b) == a[1] * b[1] + a[2] * b[2] + a[3] * b[3]

Cross(a, b) == <<a[2] * b[3] - a[3] * b[2],
                 a[3] * b[1] - a[1] * b[3],
                 a[1] * b[2] - a[2] * b[1]>>

\* The square of TVector3::Mag().
Mag2(a) == Dot(a, a)

Abs(n) == IF n < 0 THEN -n ELSE n

Sign(n) == IF n < 0 THEN -1 ELSE IF n > 0 THEN 1 ELSE 0

Min(a, b) == IF a < b THEN a ELSE b

Max(a, b) == IF a < b THEN b ELSE a

\* ------------------------------------------------------------- rationals
\* A non-negative quantity q kept as q^2 = num/den; den = 0 is the NaN of 0/0.
Frac(n, d) == [num |-> n, den |-> d]

IsNaN(q) == q.den = 0

\* q < r for two squares of non-negative doubles; false when either is NaN.
FracLess(q, r) == /\ ~IsNaN(q)
                  /\ ~IsNaN(r)
                  /\ q.num * r.den < r.num * q.den

\* q < limit, limit a non-negative whole number.
FracBelow(q, limit) == /\ ~IsNaN(q)
                       /\ q.num < limit * limit * q.den

\* dca/extrapLen, both kept as squares.
FracDiv(q, len2) == Frac(q.num, q.den * len2)

\* ------------------------------------------------------------------ times
\* A double holding a time in microseconds: wraps * (2^64 ns) + us.
Time(w, u) == [wraps |-> w, us |-> u]

\* t < x, t > x, t >= x * 1/den ... for a whole number x far below 2^64 ns.
TimeLT(t, x) == t.wraps = 0 /\ t.us < x

TimeGT(t, x) == t.wraps > 0 \/ t.us > x

TimePlus(t, x) == Time(t.wraps, t.us + x)

\* The unsigned 64-bit difference a - b of two values below 2^63.
U64Minus(a, b) == [wraps |-> IF a >= b THEN 0 ELSE 1, ns |-> a - b]

\* -------------------------------------------------------------- variables
VARIABLES
  \* the matcher's inputs
  tpcTrack,           \* recob::Track: its trajectory points and Length()
  crtHits,            \* std::vector<sbn::crt::CRTHit>
  driftDirection,     \* TPCGeoUtil::DriftDirectionFromHits: -1, 0 or +1
  xLimits,            \* TPCGeoUtil::XLimitsFromHits
  trigger_timestamp,  \* uint64_t
  driftVelocity,      \* detProp.DriftVelocity()
  sceEnabled,         \* fSCE->EnableCalSpatialSCE()
  cfg,                \* the fhicl parameters read by reconfigure
  \* the matcher's locals and results
  pc,
  entry,              \* the entry point the caller used
  t0MinMax,
  skipped,            \* per hit already looked at: why the loop left it, or "kept"
  t0Candidates,
  bestmatch,
  ftime,              \* what T0FromCRTHits returns
  ft0anddca,          \* what T0AndDCAFromCRTHits returns
  \* DistOfClosestApproach in box mode, on its own
  boxHit,             \* crtHit
  boxStart,           \* trackPos, shifted and corrected
  boxDir,             \* trackDir
  boxpc,
  thisdca,            \* what DistToCrtHit returns for trackPos and trackPos + trackDir
  \* CRTDetSim::produce, the coincidence pass
  taggers,            \* std::map<uint32_t, Tagger>, as the loop over the truth hits left it
  simcfg,             \* the fhicl parameters the pass reads
  triggeredCRTHits,   \* the output collection
  simpc,
  trgFirst,           \* trg.first: the key of the tagger being looked at (0: none yet)
  trg,                \* trg.second: the loop's copy of that tagger
  dataIndex,          \* i, the position of the loop over trg.second.data (0-based)
  event,
  chanTrigData,
  ttrig,
  trackNHold,
  layerNHold,
  tpair,
  minosPairFound,
  passingData,
  missDead,           \* the hits nmiss_dead_c/d/m count, each with the key of its tagger
  \* ChannelMapPostGres, one call of a map-building function
  building,           \* the function that is called
  wdaError,           \* error, as getDataWithTimeout sets it
  httpStatus,         \* getHTTPstatus(dataPtr)
  dataset,            \* what the database holds: the header row and the rows
  row,                \* the row the loop is at
  buildMap,           \* the map handed in by reference
  returned,           \* the values returned so far: none, or the one status
  buildpc,
  \* PeakFitterICARUS::findPeakParameters, one call
  hitCandidateVec,
  roiSignalSize,      \* roiSignalVec.size()
  fitOutcome,         \* what fHistogram.Fit does: throws, or the status it returns
  chisquare,          \* fFit.GetChisquare() after the call of Fit
  peakParamsVec,
  chi2PerNDF,
  NDF,
  fitpc

boxvars == <<boxHit, boxStart, boxDir, boxpc, thisdca>>

dbvars == <<building, wdaError, httpStatus, dataset, row, buildMap, returned, buildpc>>

fitvars == <<hitCandidateVec, roiSignalSize, fitOutcome, chisquare, peakParamsVec,
             chi2PerNDF, NDF, fitpc>>

inputs == <<tpcTrack, crtHits, driftDirection, xLimits, trigger_timestamp,
            driftVelocity, sceEnabled, cfg, boxvars, dbvars, fitvars>>

\* What a call of a database or fit function leaves alone.
othervars == <<tpcTrack, crtHits, driftDirection, xLimits, trigger_timestamp,
               driftVelocity, sceEnabled, cfg, pc, entry, t0MinMax, skipped,
               t0Candidates, bestmatch, ftime, ft0anddca, boxvars>>

matchvars == <<tpcTrack, crtHits, driftDirection, xLimits, trigger_timestamp,
               driftVelocity, sceEnabled, cfg, pc, entry, t0MinMax, skipped,
               t0Candidates, bestmatch, ftime, ft0anddca, boxvars, dbvars, fitvars>>

\* The locals of one pass of the loop over the taggers.
simlocals == <<trg, dataIndex, event, chanTrigData, ttrig, trackNHold, layerNHold,
               tpair, minosPairFound, passingData>>

simvars == <<taggers, simcfg, triggeredCRTHits, simpc, trgFirst, trg, dataIndex, event,
             chanTrigData, ttrig, trackNHold, layerNHold, tpair, minosPairFound,
             passingData, missDead>>

vars == <<matchvars, simvars>>

\* ------------------------------------------------------------ CRTT0MatchAlg
\* TrackDirectionFrac = 0.5, as a fraction
TrackDirectionFracNum == 1
TrackDirectionFracDen == 2

\* A default-constructed sbn::crt::CRTHit.
DefaultCRTHit == [pos |-> <<0, 0, 0>>, err |-> <<0, 0, 0>>, peshit |-> 0,
                  ts0_ns |-> 0, ts1_ns |-> 0]

makeNULLmc == [thishit |-> DefaultCRTHit,
               t0 |-> Time(0, NullValue),
               dca |-> Frac(NullValue, 1),
               extrapLen |-> NullValue]

\* shift/Vd as a numerator over |Vd|.
QuotNum(shift, Vd) == shift * Sign(Vd)

TrackT0RangeMinMaxFirst(driftVel, startX, endX, driftDir, limits) ==
  IF driftDir = 0 THEN [first |-> 0, second |-> 0, den |-> 1]
  ELSE LET Vd == driftDir * driftVel
           maxShift == Max(limits[1], limits[2]) - Max(startX, endX)
           minShift == Min(limits[1], limits[2]) - Min(startX, endX)
       IN  [first |-> QuotNum(Min(minShift, maxShift), Vd),
            second |-> QuotNum(Max(minShift, maxShift), Vd),
            den |-> Abs(Vd)]

\* The possible t0 range of a track: [first/den, second/den] microseconds.
TrackT0Range(driftVel, startX, endX, driftDir, limits) ==
  IF driftDir = 0 THEN [first |-> 0, second |-> 0, den |-> 1]
  ELSE LET Vd == driftDir * driftVel
           maxX == Max(startX, endX)
           maxLimit == Max(limits[1], limits[2])
           maxShift == maxLimit - maxX
           minX == Min(startX, endX)
           minLimit == Min(limits[1], limits[2])
           minShift == minLimit - minX
           t0max == QuotNum(maxShift, Vd)
           t0min == QuotNum(minShift, Vd)
       IN  [first |-> Min(t0min, t0max), second |-> Max(t0min, t0max),
            den |-> Abs(Vd)]

\* fSCE->GetCalPosOffsets: the displacement field of the space charge service,
\* here one that pushes points of the upper half (y >= 1) by one unit in y.
GetCalPosOffsets(p) == IF p[2] >= 1 THEN <<0, 1, 0>> ELSE <<0, 0, 0>>

\* if (fSCE->EnableCalSpatialSCE() && fSCEposCorr) point += offsets(point)
SCECorrected(p) ==
  IF sceEnabled /\ cfg.SCEposCorr THEN VAdd(p, GetCalPosOffsets(p)) ELSE p

\* driftDirection * crtTime * detProp.DriftVelocity(), for a time that did not wrap
XShift(t) == IF driftDirection = 0 THEN 0 ELSE driftDirection * t.us * driftVelocity

ShiftX(p, xshift) == <<p[1] + xshift, p[2], p[3]>>

Vertex(track) == track.pts[1]

End(track) == track.pts[Len(track.pts)]

\* track.LocationAtPoint(floor(nTrackPoints * frac))
MidPoint(track) ==
  track.pts[((Len(track.pts) * TrackDirectionFracNum) \div TrackDirectionFracDen) + 1]

\* The start and end directions, before the division by their norm (which
\* SimpleDCA divides out again): a zero vector stays zero, as in the code.
TrackDirection(track, CRTtime) ==
  LET xshift == XShift(CRTtime)
      startPoint == SCECorrected(ShiftX(Vertex(track), xshift))
      endPoint == SCECorrected(ShiftX(End(track), xshift))
      midPoint == SCECorrected(ShiftX(MidPoint(track), xshift))
  IN  [first |-> VSub(midPoint, startPoint), second |-> VSub(midPoint, endPoint)]

\* |(pos - start) x (pos - end)| / |direction|, squared
SimpleDCA(hit, start, direction) ==
  LET pos == hit.pos
      end == VAdd(start, direction)
  IN  Frac(Mag2(Cross(VSub(pos, start), VSub(pos, end))), Mag2(direction))

\* ---------------------------------------------------------- box geometry
\* double smallNum = 0.00001, as SmallNumNum / SmallNumDen.
SmallNumNum == 1
SmallNumDen == 100000

RECURSIVE GCD(_, _)
GCD(a, b) == IF b = 0 THEN a ELSE GCD(b, a % b)

\* The double n/d in lowest terms, d # 0.
Rat(n, d) ==
  LET g == GCD(Abs(n), Abs(d))
  IN  [num |-> (Sign(d) * n) \div g, den |-> Abs(d) \div g]

\* p < q for two doubles n/d, d > 0, without a product of their terms.
RECURSIVE RatLess(_, _)
RatLess(p, q) ==
  LET ip == p.num \div p.den
      iq == q.num \div q.den
      rp == p.num % p.den
      rq == q.num % q.den
  IN  IF ip # iq THEN ip < iq
      ELSE IF rq = 0 THEN FALSE
      ELSE IF rp = 0 THEN TRUE
      ELSE RatLess([num |-> q.den, den |-> rq], [num |-> p.den, den |-> rp])

RatMin(p, q) == IF RatLess(q, p) THEN q ELSE p

\* A double that may be infinite or NaN: num/den with den >= 0, where den = 0
\* stands for +infinity (num > 0), -infinity (num < 0) and NaN (num = 0).
ExtIsNaN(t) == t.den = 0 /\ t.num = 0

\* x * (1./d) for whole x and d: 1./0 is +infinity and 0 * infinity is NaN.
ExtQuot(x, d) ==
  IF d > 0 THEN [num |-> x, den |-> d]
  ELSE IF d < 0 THEN [num |-> -x, den |-> -d]
  ELSE [num |-> Sign(x), den |-> 0]

\* a > b; false when either is NaN.
ExtGT(a, b) ==
  /\ ~ExtIsNaN(a)
  /\ ~ExtIsNaN(b)
  /\ IF a.den = 0 THEN a.num > 0 /\ ~(b.den = 0 /\ b.num > 0)
     ELSE IF b.den = 0 THEN b.num < 0
     ELSE a.num * b.den > b.num * a.den

\* s + t * d for whole s and d.
ExtAxpy(s, t, d) ==
  IF t.den = 0 THEN [num |-> Sign(t.num) * Sign(d), den |-> 0]
  ELSE [num |-> s * t.den + t.num * d, den |-> t.den]

\* t != x for a whole x; true for a NaN.
ExtNotEqual(t, x) == t.den = 0 \/ t.num # x * t.den

\* The parameters at which the line enters and leaves the slab [lo, hi] of one
\* axis: the branches on invDir >= 0 of CubeIntersection.
SlabMin(lo, hi, s, d) == IF d >= 0 THEN ExtQuot(lo - s, d) ELSE ExtQuot(hi - s, d)

SlabMax(lo, hi, s, d) == IF d >= 0 THEN ExtQuot(hi - s, d) ELSE ExtQuot(lo - s, d)

NullPoint == <<[num |-> NullValue, den |-> 1], [num |-> NullValue, den |-> 1],
               [num |-> NullValue, den |-> 1]>>

\* Intersection between an axis-aligned cube and the infinite line through
\* start and end: the entry and exit points, or two null points.
CubeIntersection(min, max, start, end) ==
  LET dir == VSub(end, start)
      tmin0 == SlabMin(min[1], max[1], start[1], dir[1])
      tmax0 == SlabMax(min[1], max[1], start[1], dir[1])
      tymin == SlabMin(min[2], max[2], start[2], dir[2])
      tymax == SlabMax(min[2], max[2], start[2], dir[2])
      tmin1 == IF ExtGT(tymin, tmin0) THEN tymin ELSE tmin0
      tmax1 == IF ExtGT(tmax0, tymax) THEN tymax ELSE tmax0
      tzmin == SlabMin(min[3], max[3], start[3], dir[3])
      tzmax == SlabMax(min[3], max[3], start[3], dir[3])
      tmin2 == IF ExtGT(tzmin, tmin1) THEN tzmin ELSE tmin1
      tmax2 == IF ExtGT(tmax1, tzmax) THEN tzmax ELSE tmax1
  IN  IF ExtGT(tmin0, tymax) \/ ExtGT(tymin, tmax0)
      THEN [first |-> NullPoint, second |-> NullPoint]
      ELSE IF ExtGT(tmin1, tzmax) \/ ExtGT(tzmin, tmax1)
      THEN [first |-> NullPoint, second |-> NullPoint]
      ELSE [first |-> [k \in 1..3 |-> ExtAxpy(start[k], tmin2, dir[k])],
            second |-> [k \in 1..3 |-> ExtAxpy(start[k], tmax2, dir[k])]]

\* |x| < smallNum for a double x = n/d, d > 0.
IsSmall(x) == Abs(x.num) * SmallNumDen < SmallNumNum * x.den

\* Lines 698-709 of LineSegmentDistance, the lines not almost parallel: the
\* parameters sN/sD on the segment and tN/tD on the line, sN clamped to the
\* segment.
ClampedParameters(a, b, c, d, e, D) ==
  LET sN == Rat(b * e - c * d, D)
  IN  IF sN.num < 0
      THEN [sN |-> Rat(0, 1), sD |-> D, tN |-> Rat(e, 1), tD |-> c]
      ELSE IF sN.num > D * sN.den
      THEN [sN |-> Rat(D, 1), sD |-> D, tN |-> Rat(e + b, 1), tD |-> c]
      ELSE [sN |-> sN, sD |-> D, tN |-> Rat(a * e - b * d, D), tD |-> D]

\* Lines 685-710: D = a * c - b * b and the two branches on D < smallNum.
LineParameters(a, b, c, d, e) ==
  IF (a * c - b * b) * SmallNumDen < SmallNumNum
  THEN [sN |-> Rat(0, 1), sD |-> 1, tN |-> Rat(e, 1), tD |-> c]
  ELSE ClampedParameters(a, b, c, d, e, a * c - b * b)

\* Lines 716-718: |w + sc * u - tc * v|, squared.
DifferenceMag2(u, v, w, sc, tc) ==
  LET L == (sc.den * tc.den) \div GCD(sc.den, tc.den)
  IN  Rat(Mag2([k \in 1..3 |-> w[k] * L + sc.num * (L \div sc.den) * u[k]
                                 - tc.num * (L \div tc.den) * v[k]]),
          L * L)

\* Lines 713-718: sc and tc from the parameters, and the distance at them.
DistanceAt(u, v, w, q) ==
  DifferenceMag2(u, v, w,
                 IF IsSmall(q.sN) THEN Rat(0, 1) ELSE Rat(q.sN.num, q.sN.den * q.sD),
                 IF IsSmall(q.tN) THEN Rat(0, 1) ELSE Rat(q.tN.num, q.tN.den * q.tD))

\* The distance for u = direction1, v = direction2 and w = start1 - start2.
DistanceOfLines(u, v, w) ==
  DistanceAt(u, v, w, LineParameters(Dot(u, u), Dot(u, v), Dot(v, v), Dot(u, w), Dot(v, w)))

\* Distance between the segment from start1 to end1 and the infinite line
\* through start2 and end2, as its square.
LineSegmentDistance(start1, end1, start2, end2) ==
  DistanceOfLines(VSub(end1, start1), VSub(end2, start2), VSub(start1, start2))

\* A box distance that never looks whether the track goes inside the hit.
DistToCrtHitEdgesOnly(hit, start, end) ==
  LET p == hit.pos
      r == hit.err
      alongY == r[2] < r[1] /\ r[2] < r[3]
      alongZ == r[3] < r[1] /\ r[3] < r[2]
      vertex(sa, sb) ==
        IF alongZ THEN <<p[1] + sa * r[1], p[2] + sb * r[2], p[3]>>
        ELSE IF alongY THEN <<p[1] + sa * r[1], p[2], p[3] + sb * r[3]>>
        ELSE <<p[1], p[2] + sa * r[2], p[3] + sb * r[3]>>
      vertex1 == vertex(-1, -1)
      vertex2 == vertex(1, -1)
      vertex3 == vertex(-1, 1)
      vertex4 == vertex(1, 1)
      dist1 == LineSegmentDistance(vertex1, vertex2, start, end)
      dist2 == LineSegmentDistance(vertex1, vertex3, start, end)
      dist3 == LineSegmentDistance(vertex4, vertex2, start, end)
      dist4 == LineSegmentDistance(vertex4, vertex3, start, end)
  IN  RatMin(RatMin(dist1, dist2), RatMin(dist3, dist4))

\* Minimum distance from the infinite track to the hit taken as a rectangle,
\* as its square.
DistToCrtHit(hit, start, end) ==
  LET p == hit.pos
      r == hit.err
      min == VSub(p, r)
      max == VAdd(p, r)
      alongY == r[2] < r[1] /\ r[2] < r[3]
      alongZ == r[3] < r[1] /\ r[3] < r[2]
      vertex(sa, sb) ==
        IF alongZ THEN <<p[1] + sa * r[1], p[2] + sb * r[2], p[3]>>
        ELSE IF alongY THEN <<p[1] + sa * r[1], p[2], p[3] + sb * r[3]>>
        ELSE <<p[1], p[2] + sa * r[2], p[3] + sb * r[3]>>
      vertex1 == vertex(-1, -1)
      vertex2 == vertex(1, -1)
      vertex3 == vertex(-1, 1)
      vertex4 == vertex(1, 1)
      dist1 == LineSegmentDistance(vertex1, vertex2, start, end)
      dist2 == LineSegmentDistance(vertex1, vertex3, start, end)
      dist3 == LineSegmentDistance(vertex4, vertex2, start, end)
      dist4 == LineSegmentDistance(vertex4, vertex3, start, end)
  IN  IF ExtNotEqual(CubeIntersection(min, max, start, end).first[1], NullValue)
      THEN Rat(0, 1)
      ELSE RatMin(RatMin(dist1, dist2), RatMin(dist3, dist4))

DistOfClosestApproach(trackPos, trackDir, crtHit, t0) ==
  LET shifted == SCECorrected(ShiftX(trackPos, XShift(t0)))
  IN  IF cfg.DCAuseBox
      THEN DistToCrtHit(crtHit, shifted, VAdd(shifted, trackDir))
      ELSE SimpleDCA(crtHit, shifted, trackDir)

\* The time of a hit, in microseconds (GetClosestCRTHit, the head of the loop).
CrtTime(crtHit) ==
  IF cfg.TSMode = 1
  THEN Time(0, crtHit.ts1_ns \div NsPerUs)
  ELSE LET d == U64Minus(crtHit.ts0_ns, trigger_timestamp % NsPerSecond)
           crtTime == Time(d.wraps, d.ns \div NsPerUs)
       IN  IF TimeLT(crtTime, -HalfPeriodUs) THEN TimePlus(crtTime, PeriodUs)
           ELSE IF TimeGT(crtTime, HalfPeriodUs) THEN TimePlus(crtTime, -PeriodUs)
           ELSE crtTime

\* crtTime >= x/den and crtTime <= x/den
TimeGEQuot(crtTime, x, den) == crtTime.wraps > 0 \/ crtTime.us * den >= x

TimeLEQuot(crtTime, x, den) == crtTime.wraps = 0 /\ crtTime.us * den <= x

InT0RangeNoEqual(crtTime, range) ==
  /\ TimeGEQuot(crtTime, range.first - WindowMarginUs * range.den, range.den)
  /\ TimeLEQuot(crtTime, range.second + WindowMarginUs * range.den, range.den)

\* (crtTime >= first - 10. && crtTime <= second + 10.) || first == second
InT0Range(crtTime, range) ==
  \/ /\ TimeGEQuot(crtTime, range.first - WindowMarginUs * range.den, range.den)
     /\ TimeLEQuot(crtTime, range.second + WindowMarginUs * range.den, range.den)
  \/ range.first = range.second

IsNegative(q) == ~IsNaN(q) /\ q.num < 0

NonNegative(q) == ~IsNaN(q) /\ q.num >= 0

\* The end points after the drift shift and the space charge correction.
ThisStart(crtTime) == SCECorrected(ShiftX(Vertex(tpcTrack), XShift(crtTime)))

ThisEnd(crtTime) == SCECorrected(ShiftX(End(tpcTrack), XShift(crtTime)))

StartDist(crtHit, crtTime) ==
  DistOfClosestApproach(Vertex(tpcTrack), TrackDirection(tpcTrack, crtTime).first,
                        crtHit, crtTime)

EndDist(crtHit, crtTime) ==
  DistOfClosestApproach(End(tpcTrack), TrackDirection(tpcTrack, crtTime).second,
                        crtHit, crtTime)

\* A loop body without the cut on the photoelectron yield.
HitOutcomeNoPEcut(crtHit, range) ==
  LET crtTime == CrtTime(crtHit)
  IN  IF ~InT0Range(crtTime, range) THEN "time"
      ELSE IF \E k \in 1..3 : crtHit.err[k] > cfg.MaxUncert THEN "uncert"
      ELSE IF \/ FracBelow(StartDist(crtHit, crtTime), cfg.DistanceLimit)
              \/ FracBelow(EndDist(crtHit, crtTime), cfg.DistanceLimit)
           THEN "kept"
      ELSE "far"

\* A loop body that keeps every hit that passes the cuts, however far it is.
HitOutcomeNoLimit(crtHit, range) ==
  LET crtTime == CrtTime(crtHit)
  IN  IF ~InT0Range(crtTime, range) THEN "time"
      ELSE IF crtHit.peshit < cfg.PEcut THEN "pe"
      ELSE IF \E k \in 1..3 : crtHit.err[k] > cfg.MaxUncert THEN "uncert"
      ELSE "kept"

\* Why the loop body leaves a hit without a candidate, or "kept".
HitOutcome(crtHit, range) ==
  LET crtTime == CrtTime(crtHit)
  IN  IF ~InT0Range(crtTime, range) THEN "time"
      ELSE IF crtHit.peshit < cfg.PEcut THEN "pe"
      ELSE IF \E k \in 1..3 : crtHit.err[k] > cfg.MaxUncert THEN "uncert"
      ELSE IF \/ FracBelow(StartDist(crtHit, crtTime), cfg.DistanceLimit)
              \/ FracBelow(EndDist(crtHit, crtTime), cfg.DistanceLimit)
           THEN "kept"
      ELSE "far"

\* A candidate that always takes what was measured from the start of the track.
NewCandidateFromStart(crtHit) ==
  LET crtTime == CrtTime(crtHit)
      distS == Mag2(VSub(crtHit.pos, ThisStart(crtTime)))
  IN  [thishit |-> crtHit, t0 |-> crtTime,
       dca |-> StartDist(crtHit, crtTime), extrapLen |-> distS]

\* The candidate pushed for a hit whose outcome is "kept".
NewCandidate(crtHit) ==
  LET crtTime == CrtTime(crtHit)
      distS == Mag2(VSub(crtHit.pos, ThisStart(crtTime)))
      distE == Mag2(VSub(crtHit.pos, ThisEnd(crtTime)))
  IN  IF distS < distE
      THEN [thishit |-> crtHit, t0 |-> crtTime,
            dca |-> StartDist(crtHit, crtTime), extrapLen |-> distS]
      ELSE [thishit |-> crtHit, t0 |-> crtTime,
            dca |-> EndDist(crtHit, crtTime), extrapLen |-> distE]

SinAngle(cand) == FracDiv(cand.dca, cand.extrapLen)

\* The loops of GetClosestCRTHit over t0Candidates: the best of cands[k..],
\* starting from best; sin_angle is the local set once before the loop.
\* A selection that never moves off the first candidate.
BestByDCAKeepsFirst(cands, k, best) == best

RECURSIVE BestByDCA(_, _, _)
BestByDCA(cands, k, best) ==
  IF k > Len(cands) THEN best
  ELSE LET thisCand == cands[k]
       IN  BestByDCA(cands, k + 1,
             IF IsNegative(best.dca) THEN thisCand
             ELSE IF FracLess(thisCand.dca, best.dca) /\ NonNegative(thisCand.dca)
                  THEN thisCand
             ELSE best)

RECURSIVE BestBySinAngle(_, _, _, _)
BestBySinAngle(cands, k, best, sin_angle) ==
  IF k > Len(cands) THEN best
  ELSE LET thisCand == cands[k]
           this_sin_angle == SinAngle(thisCand)
       IN  BestBySinAngle(cands, k + 1,
             IF IsNegative(best.dca) THEN thisCand
             ELSE IF FracLess(this_sin_angle, sin_angle) /\ NonNegative(thisCand.dca)
                  THEN thisCand
             ELSE best,
             sin_angle)

\* A selection that hands back a zeroed candidate, not the null one, when there
\* is no candidate.
SelectBestZeroed(cands) ==
  IF Len(cands) > 0
  THEN IF cfg.DCAoverLength
       THEN BestBySinAngle(cands, 1, cands[1], SinAngle(cands[1]))
       ELSE BestByDCA(cands, 1, cands[1])
  ELSE [thishit |-> DefaultCRTHit, t0 |-> Time(0, 0), dca |-> Frac(0, 1), extrapLen |-> 0]

\* The tail of GetClosestCRTHit: the best of the candidates, or the null one.
SelectBest(cands) ==
  IF Len(cands) > 0
  THEN IF cfg.DCAoverLength
       THEN BestBySinAngle(cands, 1, cands[1], SinAngle(cands[1]))
       ELSE BestByDCA(cands, 1, cands[1])
  ELSE makeNULLmc

\* An acceptance that forgets the limit on dca/extrapLen.
AcceptedAnyRatio(closestHit) == FracBelow(closestHit.dca, cfg.DistanceLimit)

\* closestHit.dca < fDistanceLimit && closestHit.dca/closestHit.extrapLen < fDoverLLimit
Accepted(closestHit) ==
  /\ FracBelow(closestHit.dca, cfg.DistanceLimit)
  /\ FracLess(SinAngle(closestHit),
              Frac(cfg.DoverLLimit.num * cfg.DoverLLimit.num,
                   cfg.DoverLLimit.den * cfg.DoverLLimit.den))

\* The time T0FromCRTHits returns for an accepted match.
T0Time(closestHit) ==
  IF cfg.TSMode = 1
  THEN Time(0, closestHit.thishit.ts1_ns \div NsPerUs)
  ELSE Time(0, closestHit.thishit.ts0_ns \div NsPerUs + cfg.TimeCorrection)

T0FromCRTHitsResult(closestHit) ==
  IF IsNegative(closestHit.dca) THEN Time(0, NullValue)
  ELSE IF Accepted(closestHit) THEN T0Time(closestHit)
  ELSE Time(0, NullValue)

NullPair == [first |-> Time(0, NullPairValue), second |-> Frac(NullPairValue, 1)]

T0AndDCAFromCRTHitsResult(closestHit) ==
  IF IsNegative(closestHit.dca) THEN NullPair
  ELSE IF Accepted(closestHit)
       THEN [first |-> closestHit.t0, second |-> closestHit.dca]
  ELSE NullPair

\* The loop of GetClosestCRTHit over crtHits: the outcome of each hit, in order.
Outcomes(hits, range) == [k \in 1..Len(hits) |-> HitOutcome(hits[k], range)]

RECURSIVE Candidates(_, _, _)
Candidates(hits, k, range) ==
  IF k > Len(hits) THEN <<>>
  ELSE IF HitOutcome(hits[k], range) = "kept"
       THEN <<NewCandidate(hits[k])>> \o Candidates(hits, k + 1, range)
  ELSE Candidates(hits, k + 1, range)

\* ------------------------------------------------------------------ inputs
\* Largest |time| (us) of a hit that reaches the geometry of a drifting track.
MaxShiftTime == 20

Track(p1, p2, p3, len) == [pts |-> <<p1, p2, p3>>, length |-> len]

\* A straight track, a diagonal one spanning the whole drift volume, a short bent one.
Tracks == { Track(<<2, 0, 0>>, <<2, 0, 2>>, <<2, 0, 4>>, 4),
            Track(<<1, 0, 0>>, <<3, 0, 1>>, <<5, 0, 2>>, 4),
            Track(<<2, 0, 0>>, <<2, 0, 1>>, <<2, 1, 1>>, 2) }

Hit(p, e, pe, t0, t1) == [pos |-> p, err |-> e, peshit |-> pe, ts0_ns |-> t0, ts1_ns |-> t1]

HitPool == { Hit(<<2, 0, 7>>, <<1, 1, 1>>, 5, 0, 0),
             Hit(<<3, 0, 7>>, <<1, 1, 1>>, 5, 600000000, 1000),
             Hit(<<2, 2, -3>>, <<1, 1, 1>>, 5, 599999000, -1000),
             Hit(<<27, 0, 3>>, <<1, 1, 1>>, 5, 600020000, 20000),
             Hit(<<2, 0, 6>>, <<1, 1, 1>>, 1, 0, 0),
             Hit(<<2, 0, 5>>, <<1, 3, 1>>, 5, 0, 0) }

\* The hit lists: up to MaxHits different hits of the pool, in any order.
HitLists == { hs \in UNION { [1..n -> HitPool] : n \in 0..MaxHits } :
                \A a, b \in 1..Len(hs) : a # b => hs[a] # hs[b] }

Configs == { [MinTrackLength |-> 3, DistanceLimit |-> 3, TSMode |-> m,
              TimeCorrection |-> 0, SCEposCorr |-> TRUE, DCAoverLength |-> o,
              DoverLLimit |-> Frac(1, 2), PEcut |-> 2, MaxUncert |-> 2,
              DCAuseBox |-> FALSE]
             : m \in {1, 2}, o \in BOOLEAN }

\* Times that the model cannot shift a track by are kept out of the geometry.
Shiftable(hits) ==
  LET range == TrackT0Range(driftVelocity, Vertex(tpcTrack)[1], End(tpcTrack)[1],
                            driftDirection, xLimits)
  IN  \A k \in 1..Len(hits) :
        LET t == CrtTime(hits[k])
        IN  driftDirection # 0 /\ InT0Range(t, range)
              => t.wraps = 0 /\ Abs(t.us) <= MaxShiftTime

CRTChannelData(channel, t0, adc) == [Channel |-> channel, T0 |-> t0, ADC |-> adc]

\* What a default-constructed std::pair<uint32_t,uint32_t> holds.
DefaultPair == <<0, 0>>

\* A pointer that has not been set yet is never read; this stands for it.
NoChannelData == CRTChannelData(0, 0, 0)

\* The copy of a tagger before the loop over the taggers has made one.
NoTagger ==
  [type |-> "c", reg |-> "", stackid |-> 0, layerid |-> {}, chanlayer |-> <<>>,
   macPair |-> DefaultPair, data |-> <<>>]

\* The pass before produce is called, and while the matcher is looked at.
\* No call of the box distance on its own.
BoxIdle ==
  /\ boxHit = DefaultCRTHit
  /\ boxStart = <<0, 0, 0>>
  /\ boxDir = <<0, 0, 0>>
  /\ boxpc = "off"
  /\ thisdca = Frac(0, 1)

\* No map is being built.
DbIdle ==
  /\ building = "none"
  /\ wdaError = 0
  /\ httpStatus = 200
  /\ dataset = [header |-> 0, rows |-> <<>>]
  /\ row = 0
  /\ buildMap = <<>>
  /\ returned = <<>>
  /\ buildpc = "off"

\* No peak is being fitted.
FitIdle ==
  /\ hitCandidateVec = <<>>
  /\ roiSignalSize = 0
  /\ fitOutcome = [throws |-> FALSE, status |-> 0]
  /\ chisquare = 0
  /\ peakParamsVec = <<>>
  /\ chi2PerNDF = [num |-> 0, den |-> 1]
  /\ NDF = 0
  /\ fitpc = "off"

SimIdle ==
  /\ taggers = <<>>
  /\ simcfg = [ApplyCoincidenceC |-> FALSE, ApplyCoincidenceM |-> FALSE,
               ApplyCoincidenceD |-> FALSE, LayerCoincidenceWindowC |-> 0,
               LayerCoincidenceWindowM |-> 0, LayerCoincidenceWindowD |-> 0,
               DeadTime |-> 0, BiasTime |-> 0]
  /\ triggeredCRTHits = <<>>
  /\ simpc = "off"
  /\ trgFirst = 0
  /\ trg = NoTagger
  /\ dataIndex = 0
  /\ event = 0
  /\ chanTrigData = NoChannelData
  /\ ttrig = 0
  /\ trackNHold = {}
  /\ layerNHold = {}
  /\ tpair = DefaultPair
  /\ minosPairFound = FALSE
  /\ passingData = <<>>
  /\ missDead = {}

Init ==
  /\ DbIdle
  /\ FitIdle
  /\ tpcTrack \in Tracks
  /\ driftDirection \in {-1, 0, 1}
  /\ xLimits \in {<<0, 4>>}
  /\ driftVelocity \in IF driftDirection = 1 THEN {1, 2} ELSE {1}
  /\ sceEnabled \in BOOLEAN
  /\ cfg \in { c \in Configs : c.DCAoverLength => c.TSMode = 1 }
  /\ trigger_timestamp \in IF cfg.TSMode = 1 THEN {0} ELSE {0, 1600000000}
  /\ crtHits \in HitLists
  /\ Shiftable(crtHits)
  /\ pc = "call"
  /\ entry = "none"
  /\ t0MinMax = [first |-> 0, second |-> 0, den |-> 1]
  /\ skipped = <<>>
  /\ t0Candidates = <<>>
  /\ bestmatch = makeNULLmc
  /\ ftime = Time(0, 0)
  /\ ft0anddca = [first |-> Time(0, 0), second |-> Frac(0, 1)]
  /\ SimIdle
  /\ BoxIdle

\* GetClosestCRTHit(detProp, tpcTrack, hits, crtHits, trigger_timestamp) and the
\* overload it calls with the t0 range of the track: the loop over the hits,
\* then the choice of the best candidate.
RunGetClosestCRTHit ==
  LET range == TrackT0Range(driftVelocity, Vertex(tpcTrack)[1], End(tpcTrack)[1],
                            driftDirection, xLimits)
      cands == Candidates(crtHits, 1, range)
  IN  /\ t0MinMax' = range
      /\ skipped' = Outcomes(crtHits, range)
      /\ t0Candidates' = cands
      /\ bestmatch' = SelectBest(cands)

GetClosestCRTHit ==
  /\ pc = "call"
  /\ pc' = "done"
  /\ entry' = "GetClosestCRTHit"
  /\ RunGetClosestCRTHit
  /\ UNCHANGED <<inputs, ftime, ft0anddca, simvars>>

T0FromCRTHits ==
  /\ pc = "call"
  /\ pc' = "done"
  /\ entry' = "T0FromCRTHits"
  /\ IF tpcTrack.length < cfg.MinTrackLength
     THEN /\ ftime' = Time(0, NullValue)
          /\ UNCHANGED <<t0MinMax, skipped, t0Candidates, bestmatch>>
     ELSE /\ RunGetClosestCRTHit
          /\ ftime' = T0FromCRTHitsResult(bestmatch')
  /\ UNCHANGED <<inputs, ft0anddca, simvars>>

T0AndDCAFromCRTHits ==
  /\ pc = "call"
  /\ pc' = "done"
  /\ entry' = "T0AndDCAFromCRTHits"
  /\ IF tpcTrack.length < cfg.MinTrackLength
     THEN /\ ft0anddca' = NullPair
          /\ UNCHANGED <<t0MinMax, skipped, t0Candidates, bestmatch>>
     ELSE /\ RunGetClosestCRTHit
          /\ ft0anddca' = T0AndDCAFromCRTHitsResult(bestmatch')
  /\ UNCHANGED <<inputs, ftime, simvars>>

Next == GetClosestCRTHit \/ T0FromCRTHits \/ T0AndDCAFromCRTHits

Spec == Init /\ [][Next]_vars

\* ------------------------------------------------- TrackT0Range on its own
\* Largest |x| of the end points and of the limits of the drift volume.
MaxX == 2

Xs == -MaxX..MaxX

RangeInit ==
  /\ DbIdle
  /\ FitIdle
  /\ tpcTrack \in { Track(<<sx, 0, 0>>, <<sx, 0, 1>>, <<ex, 0, 2>>, 2) : sx \in Xs, ex \in Xs }
  /\ driftDirection \in {-1, 0, 1}
  /\ xLimits \in Xs \X Xs
  /\ trigger_timestamp = 0
  /\ driftVelocity \in {-2, -1, 1, 2}
  /\ sceEnabled = FALSE
  /\ cfg \in { c \in Configs : c.TSMode = 1 /\ ~c.DCAoverLength }
  /\ crtHits = <<>>
  /\ pc = "call"
  /\ entry = "none"
  /\ t0MinMax = [first |-> 0, second |-> 0, den |-> 1]
  /\ skipped = <<>>
  /\ t0Candidates = <<>>
  /\ bestmatch = makeNULLmc
  /\ ftime = Time(0, 0)
  /\ ft0anddca = [first |-> Time(0, 0), second |-> Frac(0, 1)]
  /\ SimIdle
  /\ BoxIdle

TrackT0RangeCall ==
  /\ pc = "call"
  /\ pc' = "done"
  /\ entry' = "TrackT0Range"
  /\ t0MinMax' = TrackT0Range(driftVelocity, Vertex(tpcTrack)[1], End(tpcTrack)[1],
                              driftDirection, xLimits)
  /\ UNCHANGED <<inputs, skipped, t0Candidates, bestmatch, ftime, ft0anddca, simvars>>

RangeNext == TrackT0RangeCall

RangeSpec == RangeInit /\ [][RangeNext]_vars

\* ------------------------------------- CRTDetSim::produce: coincidence pass
\* Times are whole microseconds; trigClock.Time is taken at one tick per
\* microsecond.  The layer coincidence windows are configured in nanoseconds and
\* the code multiplies them by 1e-3: the model multiplies the other side by
\* WindowScale instead.
WindowScale == 1000

ClockTime(ticks) == ticks

CRTData(mac5, entry_, ttrig_, chanTrig, tpair_, macPair, data) ==
  [Mac5 |-> mac5, Entry |-> entry_, TTrig |-> ttrig_, ChanTrig |-> chanTrig,
   TrigPair |-> tpair_, MacPair |-> macPair, ChanData |-> data]

TimeOrderCRTData(crtdat1, crtdat2) == crtdat1.T0 < crtdat2.T0

\* std::sort with TimeOrderCRTData: every order of the entries in which no
\* entry comes before one that TimeOrderCRTData puts first (the order of entries
\* with the same T0 is whatever the library makes it).
RECURSIVE SortedOrders(_, _)
SortedOrders(data, left) ==
  IF left = {} THEN { <<>> }
  ELSE LET firsts == { k \in left : \A j \in left : ~TimeOrderCRTData(data[j], data[k]) }
       IN  UNION { { <<data[k]>> \o rest : rest \in SortedOrders(data, left \ {k}) }
                   : k \in firsts }

Sort(data) == SortedOrders(data, 1..Len(data))

\* The guard of lines 587-591.
CoincidencePossible(tagger) ==
  \/ tagger.type = "m"
  \/ /\ tagger.type = "c"
     /\ (~simcfg.ApplyCoincidenceC
           \/ (simcfg.ApplyCoincidenceC /\ Cardinality(tagger.layerid) > 1))
  \/ /\ tagger.type = "d"
     /\ (~simcfg.ApplyCoincidenceD
           \/ (simcfg.ApplyCoincidenceD /\ Cardinality(tagger.layerid) > 1))

\* The keys of the map that the loop over the taggers has not visited yet.
KeysLeft == { k \in DOMAIN taggers : k > trgFirst }

NextKey == CHOOSE k \in KeysLeft : \A j \in KeysLeft : k <= j

chanTmpData == trg.data[dataIndex + 1]

ttmp == ClockTime(chanTmpData.T0)

LayerCoincidenceWindow ==
  CASE trg.type = "c" -> simcfg.LayerCoincidenceWindowC
    [] trg.type = "d" -> simcfg.LayerCoincidenceWindowD
    [] trg.type = "m" -> simcfg.LayerCoincidenceWindowM

\* A check that counts the channels held instead of the layers.
LayerCoincidenceFailedByChannels ==
  /\ Cardinality(trackNHold) = 1
  /\ \/ /\ trg.type = "c"
        /\ simcfg.ApplyCoincidenceC
        /\ (ttmp - ttrig) * WindowScale > simcfg.LayerCoincidenceWindowC
     \/ /\ trg.type = "d"
        /\ simcfg.ApplyCoincidenceD
        /\ (ttmp - ttrig) * WindowScale > simcfg.LayerCoincidenceWindowD

\* The condition of lines 614-616.
LayerCoincidenceFailed ==
  /\ Cardinality(layerNHold) = 1
  /\ \/ /\ trg.type = "c"
        /\ simcfg.ApplyCoincidenceC
        /\ (ttmp - ttrig) * WindowScale > simcfg.LayerCoincidenceWindowC
     \/ /\ trg.type = "d"
        /\ simcfg.ApplyCoincidenceD
        /\ (ttmp - ttrig) * WindowScale > simcfg.LayerCoincidenceWindowD

\* The condition of line 633.
MinosScan == trg.type = "m" /\ ~minosPairFound /\ simcfg.ApplyCoincidenceM

\* A scan that does not look at the stack of the other tagger.
MinosPartnersAnyStack ==
  { k2 \in DOMAIN taggers :
      /\ taggers[k2].type = "m"
      /\ trgFirst # k2
      /\ trg.reg = taggers[k2].reg
      /\ \/ (1 \in taggers[k2].layerid /\ 0 \in trg.layerid)
         \/ (0 \in taggers[k2].layerid /\ 1 \in trg.layerid)
      /\ \E j \in 1..Len(taggers[k2].data) :
           Abs(ClockTime(taggers[k2].data[j].T0) - ttrig) * WindowScale
             < simcfg.LayerCoincidenceWindowM }

\* The taggers at which the scan of lines 634-656 finds a hit in time with the
\* trigger; the scan stops at the first of them in the order of the map.
MinosPartners ==
  { k2 \in DOMAIN taggers :
      /\ taggers[k2].type = "m"
      /\ trgFirst # k2
      /\ trg.stackid = taggers[k2].stackid
      /\ trg.reg = taggers[k2].reg
      /\ \/ (1 \in taggers[k2].layerid /\ 0 \in trg.layerid)
         \/ (0 \in taggers[k2].layerid /\ 1 \in trg.layerid)
      /\ \E j \in 1..Len(taggers[k2].data) :
           Abs(ClockTime(taggers[k2].data[j].T0) - ttrig) * WindowScale
             < simcfg.LayerCoincidenceWindowM }

FirstPartner == CHOOSE k \in MinosPartners : \A j \in MinosPartners : k <= j

\* The hit gets past both retries (lines 614-669) ...
PastRetries == ~LayerCoincidenceFailed /\ (MinosScan => MinosPartners # {})

\* ... and this is what lines 649, 650 and 670 have then made of the pair flag
\* and of the module pair of the copy.
PairFoundNow == IF MinosScan THEN TRUE ELSE minosPairFound

MacPairNow ==
  IF MinosScan THEN <<trgFirst, FirstPartner>>
  ELSE IF trg.type # "m" THEN <<trgFirst, trgFirst>>
  ELSE trg.macPair

\* A window that also takes the hit at its very end.
InReadoutWindowInclusive == (ttmp - ttrig) * WindowScale <= LayerCoincidenceWindow

\* The condition of lines 674-676.
InReadoutWindow == (ttmp - ttrig) * WindowScale < LayerCoincidenceWindow

\* Lines 617-624, 658-665: the hit takes the trigger over.
TakeOverTrigger ==
  /\ chanTrigData' = chanTmpData
  /\ ttrig' = ttmp
  /\ trackNHold' = {chanTmpData.Channel}
  /\ layerNHold' = {trg.chanlayer[chanTmpData.Channel]}
  /\ passingData' = <<chanTmpData>>

\* A loop over references to the entries of the map: the sort orders the data
\* of the map itself.
BeginTaggerByReference ==
  /\ simpc = "taggers"
  /\ KeysLeft # {}
  /\ CoincidencePossible(taggers[NextKey])
  /\ trgFirst' = NextKey
  /\ \E sorted \in Sort(taggers[NextKey].data) :
       /\ trg' = [taggers[NextKey] EXCEPT !.data = sorted]
       /\ taggers' = [taggers EXCEPT ![NextKey].data = sorted]
       /\ chanTrigData' = sorted[1]
       /\ ttrig' = ClockTime(sorted[1].T0)
       /\ trackNHold' = {sorted[1].Channel}
       /\ layerNHold' = {taggers[NextKey].chanlayer[sorted[1].Channel]}
       /\ passingData' = <<sorted[1]>>
  /\ event' = 0
  /\ tpair' = DefaultPair
  /\ minosPairFound' = FALSE
  /\ dataIndex' = 1
  /\ simpc' = "data"
  /\ UNCHANGED <<missDead, simcfg, triggeredCRTHits, matchvars>>

\* Lines 572-601 for a tagger that may trigger: the copy, the sort of the
\* copy's data, the earliest entry as trigger.
BeginTagger ==
  /\ simpc = "taggers"
  /\ KeysLeft # {}
  /\ CoincidencePossible(taggers[NextKey])
  /\ trgFirst' = NextKey
  /\ \E sorted \in Sort(taggers[NextKey].data) :
       /\ trg' = [taggers[NextKey] EXCEPT !.data = sorted]
       /\ chanTrigData' = sorted[1]
       /\ ttrig' = ClockTime(sorted[1].T0)
       /\ trackNHold' = {sorted[1].Channel}
       /\ layerNHold' = {taggers[NextKey].chanlayer[sorted[1].Channel]}
       /\ passingData' = <<sorted[1]>>
  /\ event' = 0
  /\ tpair' = DefaultPair
  /\ minosPairFound' = FALSE
  /\ dataIndex' = 1
  /\ simpc' = "data"
  /\ UNCHANGED <<missDead, taggers, simcfg, triggeredCRTHits, matchvars>>

\* Lines 572-591 for a C or D tagger that cannot meet its layer coincidence.
SkipTagger ==
  /\ simpc = "taggers"
  /\ KeysLeft # {}
  /\ ~CoincidencePossible(taggers[NextKey])
  /\ trgFirst' = NextKey
  /\ trg' = taggers[NextKey]
  /\ chanTrigData' = NoChannelData
  /\ ttrig' = 0
  /\ trackNHold' = {}
  /\ layerNHold' = {}
  /\ passingData' = <<>>
  /\ event' = 0
  /\ tpair' = DefaultPair
  /\ minosPairFound' = FALSE
  /\ dataIndex' = 0
  /\ UNCHANGED <<missDead, taggers, simcfg, triggeredCRTHits, simpc, matchvars>>

InDataLoop == simpc = "data" /\ dataIndex < Len(trg.data)

\* A retry that reads the failed trigger out before it hands over.
RetryLayerCoincidenceReadsOut ==
  /\ InDataLoop
  /\ LayerCoincidenceFailed
  /\ triggeredCRTHits' =
       Append(triggeredCRTHits,
              CRTData(trgFirst, event, ttrig, chanTrigData.Channel, tpair,
                      trg.macPair, passingData))
  /\ TakeOverTrigger
  /\ dataIndex' = dataIndex + 1
  /\ UNCHANGED <<missDead, taggers, simcfg, simpc, trgFirst, trg, event,
                 tpair, minosPairFound, matchvars>>

\* Lines 614-628.
RetryLayerCoincidence ==
  /\ InDataLoop
  /\ LayerCoincidenceFailed
  /\ TakeOverTrigger
  /\ dataIndex' = dataIndex + 1
  /\ UNCHANGED <<missDead, taggers, simcfg, triggeredCRTHits, simpc, trgFirst, trg, event,
                 tpair, minosPairFound, matchvars>>

\* Lines 633-668 when no tagger gives the trigger its pair.
RetryMinosPair ==
  /\ InDataLoop
  /\ ~LayerCoincidenceFailed
  /\ MinosScan
  /\ MinosPartners = {}
  /\ TakeOverTrigger
  /\ dataIndex' = dataIndex + 1
  /\ UNCHANGED <<missDead, taggers, simcfg, triggeredCRTHits, simpc, trgFirst, trg, event,
                 tpair, minosPairFound, matchvars>>

\* Lines 674-681: a channel that is not held yet.
HoldChannel ==
  /\ InDataLoop
  /\ PastRetries
  /\ InReadoutWindow
  /\ chanTmpData.Channel \notin trackNHold
  /\ trackNHold' = trackNHold \cup {chanTmpData.Channel}
  /\ passingData' = Append(passingData, chanTmpData)
  /\ layerNHold' = layerNHold \cup {trg.chanlayer[chanTmpData.Channel]}
  /\ tpair' = IF trg.chanlayer[chanTmpData.Channel] \notin layerNHold
              THEN <<chanTrigData.Channel, chanTmpData.Channel>>
              ELSE tpair
  /\ trg' = [trg EXCEPT !.macPair = MacPairNow]
  /\ minosPairFound' = PairFoundNow
  /\ dataIndex' = dataIndex + 1
  /\ UNCHANGED <<missDead, taggers, simcfg, triggeredCRTHits, simpc, trgFirst, event,
                 chanTrigData, ttrig, matchvars>>

\* Lines 682-686: a held channel inside the bias time.
AddBiasADC ==
  /\ InDataLoop
  /\ PastRetries
  /\ InReadoutWindow
  /\ chanTmpData.Channel \in trackNHold
  /\ ttmp < ttrig + simcfg.BiasTime
  /\ passingData' = [passingData EXCEPT ![Len(passingData)].ADC = @ + chanTmpData.ADC]
  /\ trg' = [trg EXCEPT !.macPair = MacPairNow]
  /\ minosPairFound' = PairFoundNow
  /\ dataIndex' = dataIndex + 1
  /\ UNCHANGED <<missDead, taggers, simcfg, triggeredCRTHits, simpc, trgFirst, event,
                 chanTrigData, ttrig, trackNHold, layerNHold, tpair, matchvars>>

\* Lines 687-691: a held channel after the bias time.
MissLock ==
  /\ InDataLoop
  /\ PastRetries
  /\ InReadoutWindow
  /\ chanTmpData.Channel \in trackNHold
  /\ ~(ttmp < ttrig + simcfg.BiasTime)
  /\ trg' = [trg EXCEPT !.macPair = MacPairNow]
  /\ minosPairFound' = PairFoundNow
  /\ dataIndex' = dataIndex + 1
  /\ UNCHANGED <<missDead, taggers, simcfg, triggeredCRTHits, simpc, trgFirst, event,
                 chanTrigData, ttrig, trackNHold, layerNHold, tpair, passingData,
                 matchvars>>

\* A dead time that does not keep the hit from triggering a readout.
MissDeadReadsOut ==
  /\ InDataLoop
  /\ PastRetries
  /\ ~InReadoutWindow
  /\ ttmp <= ttrig + simcfg.DeadTime
  /\ triggeredCRTHits' =
       Append(triggeredCRTHits,
              CRTData(trgFirst, event, ttrig, chanTrigData.Channel, tpair,
                      MacPairNow, passingData))
  /\ event' = event + 1
  /\ TakeOverTrigger
  /\ trg' = [trg EXCEPT !.macPair = MacPairNow]
  /\ minosPairFound' = FALSE
  /\ dataIndex' = dataIndex + 1
  /\ missDead' = missDead \cup {<<trgFirst, chanTmpData>>}
  /\ UNCHANGED <<taggers, simcfg, simpc, trgFirst, tpair, matchvars>>

\* A dead time that still takes the data of the hit.
MissDeadHoldsHit ==
  /\ InDataLoop
  /\ PastRetries
  /\ ~InReadoutWindow
  /\ ttmp <= ttrig + simcfg.DeadTime
  /\ passingData' = Append(passingData, chanTmpData)
  /\ trg' = [trg EXCEPT !.macPair = MacPairNow]
  /\ minosPairFound' = PairFoundNow
  /\ dataIndex' = dataIndex + 1
  /\ missDead' = missDead \cup {<<trgFirst, chanTmpData>>}
  /\ UNCHANGED <<taggers, simcfg, triggeredCRTHits, simpc, trgFirst, event,
                 chanTrigData, ttrig, trackNHold, layerNHold, tpair, matchvars>>

\* A dead time that lets the hit through as the next trigger.
MissDeadTakesOver ==
  /\ InDataLoop
  /\ PastRetries
  /\ ~InReadoutWindow
  /\ ttmp <= ttrig + simcfg.DeadTime
  /\ TakeOverTrigger
  /\ trg' = [trg EXCEPT !.macPair = MacPairNow]
  /\ minosPairFound' = FALSE
  /\ dataIndex' = dataIndex + 1
  /\ missDead' = missDead \cup {<<trgFirst, chanTmpData>>}
  /\ UNCHANGED <<taggers, simcfg, triggeredCRTHits, simpc, trgFirst, event, tpair,
                 matchvars>>

\* Lines 693-700: after the window, inside the dead time.
MissDead ==
  /\ InDataLoop
  /\ PastRetries
  /\ ~InReadoutWindow
  /\ ttmp <= ttrig + simcfg.DeadTime
  /\ trg' = [trg EXCEPT !.macPair = MacPairNow]
  /\ minosPairFound' = PairFoundNow
  /\ dataIndex' = dataIndex + 1
  /\ missDead' = missDead \cup {<<trgFirst, chanTmpData>>}
  /\ UNCHANGED <<taggers, simcfg, triggeredCRTHits, simpc, trgFirst, event,
                 chanTrigData, ttrig, trackNHold, layerNHold, tpair, passingData,
                 matchvars>>

\* A read-out that goes on holding what the old trigger had collected.
ReadOutKeepsHeld ==
  /\ InDataLoop
  /\ PastRetries
  /\ ~InReadoutWindow
  /\ ttmp > ttrig + simcfg.DeadTime
  /\ triggeredCRTHits' =
       Append(triggeredCRTHits,
              CRTData(trgFirst, event, ttrig, chanTrigData.Channel, tpair,
                      MacPairNow, passingData))
  /\ event' = event + 1
  /\ chanTrigData' = chanTmpData
  /\ ttrig' = ttmp
  /\ trackNHold' = trackNHold \cup {chanTmpData.Channel}
  /\ layerNHold' = layerNHold \cup {trg.chanlayer[chanTmpData.Channel]}
  /\ passingData' = Append(passingData, chanTmpData)
  /\ trg' = [trg EXCEPT !.macPair = MacPairNow]
  /\ minosPairFound' = FALSE
  /\ dataIndex' = dataIndex + 1
  /\ UNCHANGED <<missDead, taggers, simcfg, simpc, trgFirst, tpair, matchvars>>

\* Lines 702-722: after the dead time.
ReadOut ==
  /\ InDataLoop
  /\ PastRetries
  /\ ~InReadoutWindow
  /\ ~(ttmp <= ttrig + simcfg.DeadTime)
  /\ ttmp > ttrig + simcfg.DeadTime
  /\ triggeredCRTHits' =
       Append(triggeredCRTHits,
              CRTData(trgFirst, event, ttrig, chanTrigData.Channel, tpair,
                      MacPairNow, passingData))
  /\ event' = event + 1
  /\ TakeOverTrigger
  /\ trg' = [trg EXCEPT !.macPair = MacPairNow]
  /\ minosPairFound' = FALSE
  /\ dataIndex' = dataIndex + 1
  /\ UNCHANGED <<missDead, taggers, simcfg, simpc, trgFirst, tpair, matchvars>>

\* Line 724: the loop over the data of the tagger is over.
EndTagger ==
  /\ simpc = "data"
  /\ dataIndex >= Len(trg.data)
  /\ simpc' = "taggers"
  /\ UNCHANGED <<missDead, taggers, simcfg, triggeredCRTHits, trgFirst, simlocals, matchvars>>

\* Lines 726-767: the loop over the taggers is over, the collection is put.
Put ==
  /\ simpc = "taggers"
  /\ KeysLeft = {}
  /\ simpc' = "done"
  /\ UNCHANGED <<missDead, taggers, simcfg, triggeredCRTHits, trgFirst, simlocals, matchvars>>

SimNext ==
  \/ BeginTagger
  \/ SkipTagger
  \/ RetryLayerCoincidence
  \/ RetryMinosPair
  \/ HoldChannel
  \/ AddBiasADC
  \/ MissLock
  \/ MissDead
  \/ ReadOut
  \/ EndTagger
  \/ Put

\* The taggers as the loop over the truth hits builds them (lines 475-520):
\* one entry per D or M hit, one per fibre of a C strip; chanlayer takes the
\* layer of every channel with an entry and layerid collects those layers.
\* Largest number of hits on the first module.
MaxSimHits == 4

SimTimes == {0, 30, 50, 230, 500}

\* A hit: the strip it is on and its time in ticks.
SimHit(strip, t) == [strip |-> strip, t |-> t]

\* The layer of a strip of a C or D module (line 287); an M module has the
\* layer of its place in the stack (lines 289-300).
StripLayer(type, moduleLayer, strip) == IF type = "m" THEN moduleLayer ELSE strip % 2

\* Lines 453-468, with the strip as the channel of an M module.
Channels(type, strip) == IF type = "c" THEN <<2 * strip, 2 * strip + 1>> ELSE <<strip>>

HitData(type, h) ==
  LET chans == Channels(type, h.strip)
  IN  [k \in 1..Len(chans) |-> CRTChannelData(chans[k], h.t, chans[k] + 1)]

RECURSIVE TaggerData(_, _)
TaggerData(type, hits) ==
  IF hits = <<>> THEN <<>> ELSE HitData(type, Head(hits)) \o TaggerData(type, Tail(hits))

MakeTagger(type, reg, stackid, moduleLayer, hits) ==
  LET data == TaggerData(type, hits)
      chans == { data[k].Channel : k \in 1..Len(data) }
      layerOf(ch) == StripLayer(type, moduleLayer, IF type = "c" THEN ch \div 2 ELSE ch)
  IN  [type |-> type, reg |-> reg, stackid |-> stackid,
       layerid |-> { layerOf(ch) : ch \in chans },
       chanlayer |-> [ch \in chans |-> layerOf(ch)],
       macPair |-> DefaultPair,
       data |-> data]

\* Both fibres of a C strip give an entry, so a C module gets fewer times.
SimHitPool(type) ==
  { SimHit(strip, t) : strip \in (IF type = "d" THEN {0, 1, 2} ELSE {0, 1}),
                       t \in (IF type = "c" THEN {0, 30, 230} ELSE SimTimes) }

\* The hits of the first module come in any order but that of their times:
\* latest first, so that the sort has work to do.
Later(h, g) == h.t > g.t \/ (h.t = g.t /\ h.strip > g.strip)

RECURSIVE LatestFirst(_)
LatestFirst(hs) ==
  IF hs = {} THEN <<>>
  ELSE LET h == CHOOSE x \in hs : \A y \in hs \ {x} : Later(x, y)
       IN  <<h>> \o LatestFirst(hs \ {h})

SimHitLists(type) ==
  { LatestFirst(hs) : hs \in { x \in SUBSET SimHitPool(type) :
                                  Cardinality(x) >= 1 /\ Cardinality(x) <= MaxSimHits } }

\* A second M module next to the first: on the other layer of the same stack,
\* on the other layer of another stack, or on the same layer.
SecondModules ==
  { MakeTagger("m", "Left", st, ly, <<SimHit(0, t)>>)
      : st \in {0}, ly \in {1}, t \in {10, 250} }
  \cup { MakeTagger("m", "Left", 1, 1, <<SimHit(0, 10)>>),
         MakeTagger("m", "Left", 0, 0, <<SimHit(0, 10)>>) }

FirstModules ==
  UNION { { MakeTagger(type, "Left", 0, 0, hits) : hits \in SimHitLists(type) }
          : type \in {"c", "d", "m"} }

TaggerMaps ==
  UNION { { [k \in {1} |-> f] }
          \cup (IF f.type = "m"
                THEN { [k \in {1, 2} |-> IF k = 1 THEN f ELSE g] : g \in SecondModules }
                ELSE {})
          : f \in FirstModules }

SimConfigs ==
  { [ApplyCoincidenceC |-> a, ApplyCoincidenceM |-> a, ApplyCoincidenceD |-> a,
     LayerCoincidenceWindowC |-> w, LayerCoincidenceWindowM |-> w,
     LayerCoincidenceWindowD |-> w, DeadTime |-> 200, BiasTime |-> 40]
      : a \in BOOLEAN, w \in {30000, 100000} }

\* The matcher while the pass is looked at.
MatchIdle ==
  /\ tpcTrack = Track(<<0, 0, 0>>, <<0, 0, 1>>, <<0, 0, 2>>, 2)
  /\ driftDirection = 0
  /\ xLimits = <<0, 0>>
  /\ trigger_timestamp = 0
  /\ driftVelocity = 1
  /\ sceEnabled = FALSE
  /\ cfg \in { c \in Configs : c.TSMode = 1 /\ ~c.DCAoverLength }
  /\ crtHits = <<>>
  /\ pc = "off"
  /\ entry = "none"
  /\ t0MinMax = [first |-> 0, second |-> 0, den |-> 1]
  /\ skipped = <<>>
  /\ t0Candidates = <<>>
  /\ bestmatch = makeNULLmc
  /\ ftime = Time(0, 0)
  /\ ft0anddca = [first |-> Time(0, 0), second |-> Frac(0, 1)]

\* Line 552-563: the state at the head of the loop over the taggers.
SimInit ==
  /\ DbIdle
  /\ FitIdle
  /\ MatchIdle
  /\ BoxIdle
  /\ taggers \in TaggerMaps
  /\ simcfg \in SimConfigs
  /\ triggeredCRTHits = <<>>
  /\ simpc = "taggers"
  /\ trgFirst = 0
  /\ trg = NoTagger
  /\ dataIndex = 0
  /\ event = 0
  /\ chanTrigData = NoChannelData
  /\ ttrig = 0
  /\ trackNHold = {}
  /\ layerNHold = {}
  /\ tpair = DefaultPair
  /\ minosPairFound = FALSE
  /\ passingData = <<>>
  /\ missDead = {}

SimSpec == SimInit /\ [][SimNext]_vars

\* ------------------------------------------------- box distance on its own
\* Largest |coordinate| of the start of the track, around a hit at the origin.
MaxBoxCoord == 2
\* Largest |component| of the direction of the track.
MaxBoxDir == 1

BoxCoords == -MaxBoxCoord..MaxBoxCoord

BoxDirs == -MaxBoxDir..MaxBoxDir

\* Hits at the origin: a point, a cube, the three ways two axes can have the
\* larger uncertainty, and two axes tied for the smaller one.
BoxHits == { Hit(<<0, 0, 0>>, e, 5, 0, 0) :
               e \in {<<0, 0, 0>>, <<1, 1, 1>>, <<0, 1, 1>>, <<1, 0, 1>>, <<1, 1, 0>>,
                      <<1, 0, 0>>} }

BoxInit ==
  /\ DbIdle
  /\ FitIdle
  /\ tpcTrack = Track(<<0, 0, 0>>, <<0, 0, 1>>, <<0, 0, 2>>, 2)
  /\ driftDirection = 0
  /\ xLimits = <<0, 0>>
  /\ trigger_timestamp = 0
  /\ driftVelocity = 1
  /\ sceEnabled = FALSE
  /\ cfg \in { [c EXCEPT !.DCAuseBox = TRUE] : c \in { k \in Configs : k.TSMode = 1 /\ ~k.DCAoverLength } }
  /\ crtHits = <<>>
  /\ pc = "off"
  /\ entry = "none"
  /\ t0MinMax = [first |-> 0, second |-> 0, den |-> 1]
  /\ skipped = <<>>
  /\ t0Candidates = <<>>
  /\ bestmatch = makeNULLmc
  /\ ftime = Time(0, 0)
  /\ ft0anddca = [first |-> Time(0, 0), second |-> Frac(0, 1)]
  /\ SimIdle
  /\ boxHit \in BoxHits
  /\ boxStart \in BoxCoords \X BoxCoords \X BoxCoords
  /\ boxDir \in BoxDirs \X BoxDirs \X BoxDirs
  /\ boxpc = "call"
  /\ thisdca = Frac(0, 1)

\* DistOfClosestApproach past the shift of trackPos, with fDCAuseBox:
\* end = trackPos + trackDir; thisdca = DistToCrtHit(crtHit, trackPos, end).
DistOfClosestApproachBox ==
  /\ boxpc = "call"
  /\ cfg.DCAuseBox
  /\ boxpc' = "done"
  /\ thisdca' = DistToCrtHit(boxHit, boxStart, VAdd(boxStart, boxDir))
  /\ UNCHANGED <<tpcTrack, crtHits, driftDirection, xLimits, trigger_timestamp,
                 driftVelocity, sceEnabled, cfg, pc, entry, t0MinMax, skipped,
                 t0Candidates, bestmatch, ftime, ft0anddca, boxHit, boxStart,
                 boxDir, simvars, dbvars, fitvars>>

BoxNext == DistOfClosestApproachBox

BoxSpec == BoxInit /\ [][BoxNext]_vars

\* ------------------------------------------------------- ChannelMapPostGres
\* A row of the dataset: a null tuple, or one with the column whose read
\* reports an error ("none": no read does), the value of its key column and a
\* flag for what decides whether the row is used (the TPC bit of the fragment
\* ID, five columns or more in the calibration table).
tuple == dataset.rows[row]

NullTuple == [null |-> TRUE, bad |-> "none", key |-> 0, flag |-> FALSE]

\* The functions that clear the map before they ask for the dataset.
ClearsMap(fn) ==
  fn \in {"BuildPMTFragmentToDigitizerChannelMap",
           "BuildCRTChannelIDToHWtoSimMacAddressPairMap",
           "BuildTopCRTHWtoSimMacAddressPairMap"}

\* All functions but BuildSideCRTCalibrationMap find their columns in row 0.
HasHeader(fn) == fn # "BuildSideCRTCalibrationMap"

\* The columns a function reads from a row, in the order it reads them, when
\* the map is m and no read fails.
Columns(fn, t, m) ==
  CASE fn = "BuildTPCFragmentIDToReadoutIDMap" ->
         <<"fragement_id">>
           \o (IF ~t.flag THEN <<>>
               ELSE (IF t.key \in DOMAIN m THEN <<>> ELSE <<"flange_id">>)
                      \o <<"readout_board_id">>)
    [] fn = "BuildTPCReadoutBoardToChannelMap" ->
         <<"readout_board_id">>
           \o (IF t.key \in DOMAIN m THEN <<>> ELSE <<"readout_board_slot">>)
           \o <<"channel_number", "channel_id", "plane">>
    [] fn = "BuildPMTFragmentToDigitizerChannelMap" ->
         <<"digitizer_label", "fragment_id", "digitizer_ch_number", "channel_id",
           "light_fiber_label">>
    [] fn = "BuildCRTChannelIDToHWtoSimMacAddressPairMap" ->
         <<"feb_index", "mac_address", "channel_id">>
    [] fn = "BuildTopCRTHWtoSimMacAddressPairMap" ->
         <<"feb_index", "mac_add">>
    [] fn = "BuildSideCRTCalibrationMap" ->
         IF ~t.flag THEN <<>> ELSE <<"mac5", "channel", "gain", "ped">>

\* One of the reads of the row reports an error: the function throws there.
ReadFails(fn, t, m) ==
  \E k \in 1..Len(Columns(fn, t, m)) : Columns(fn, t, m)[k] = t.bad

\* The row is one the function puts into the map: not a fragment of another
\* detector, not one of the short rows at the head of the calibration table.
UsesRow(fn, t) ==
  IF fn \in {"BuildTPCFragmentIDToReadoutIDMap", "BuildSideCRTCalibrationMap"}
  THEN t.flag ELSE TRUE

\* m with v at k.
MapPut(m, k, v) == [x \in DOMAIN m \cup {k} |-> IF x = k THEN v ELSE m[x]]

\* The map after a row r was put into it; the values of the columns that are
\* no keys are taken to be the number of the row.
MapAfter(fn, t, m, r) ==
  CASE fn = "BuildTPCFragmentIDToReadoutIDMap" ->
         LET old == IF t.key \in DOMAIN m THEN m[t.key]
                    ELSE [first |-> r, second |-> <<>>]
         IN  MapPut(m, t.key, [old EXCEPT !.second = Append(@, r)])
    [] fn = "BuildTPCReadoutBoardToChannelMap" ->
         LET old == IF t.key \in DOMAIN m THEN m[t.key]
                    ELSE [first |-> r, second |-> <<>>]
         IN  MapPut(m, t.key, [old EXCEPT !.second = MapPut(@, r, <<r, r>>)])
    [] fn = "BuildPMTFragmentToDigitizerChannelMap" ->
         MapPut(m, t.key, Append(IF t.key \in DOMAIN m THEN m[t.key] ELSE <<>>,
                                 <<r, r, r>>))
    [] fn = "BuildCRTChannelIDToHWtoSimMacAddressPairMap" ->
         MapPut(m, t.key, <<r, r>>)
    [] fn = "BuildTopCRTHWtoSimMacAddressPairMap" ->
         MapPut(m, t.key, r)
    [] fn = "BuildSideCRTCalibrationMap" ->
         IF t.key \in DOMAIN m THEN m ELSE MapPut(m, t.key, <<r, r>>)

\* The head of every function and GetDataset (lines 133-159) when the access
\* reports an error: an exception.
GetDatasetFails ==
  /\ buildpc = "call"
  /\ wdaError # 0
  /\ buildMap' = IF ClearsMap(building) THEN <<>> ELSE buildMap
  /\ buildpc' = "thrown"
  /\ UNCHANGED <<building, wdaError, httpStatus, dataset, row, returned, othervars,
                 fitvars, simvars>>

\* The same without an error: the dataset is handed on, whatever the HTTP
\* status, which is only logged.
GetDataset ==
  /\ buildpc = "call"
  /\ wdaError = 0
  /\ buildMap' = IF ClearsMap(building) THEN <<>> ELSE buildMap
  /\ buildpc' = IF HasHeader(building) THEN "header" ELSE "rows"
  /\ row' = 1
  /\ UNCHANGED <<building, wdaError, httpStatus, dataset, returned, othervars,
                 fitvars, simvars>>

\* WDAPositionFinder on row 0 when a column name cannot be read: an exception.
FindColumnsFails ==
  /\ buildpc = "header"
  /\ dataset.header # 0
  /\ buildpc' = "thrown"
  /\ UNCHANGED <<building, wdaError, httpStatus, dataset, row, buildMap, returned,
                 othervars, fitvars, simvars>>

FindColumns ==
  /\ buildpc = "header"
  /\ dataset.header = 0
  /\ buildpc' = "rows"
  /\ UNCHANGED <<building, wdaError, httpStatus, dataset, row, buildMap, returned,
                 othervars, fitvars, simvars>>

InRows == buildpc = "rows" /\ row <= Len(dataset.rows)

\* A row the loop passes by: a null tuple, or one the function does not use.
SkipRow ==
  /\ InRows
  /\ \/ tuple.null
     \/ (~ReadFails(building, tuple, buildMap) /\ ~UsesRow(building, tuple))
  /\ row' = row + 1
  /\ UNCHANGED <<building, wdaError, httpStatus, dataset, buildMap, returned, buildpc,
                 othervars, fitvars, simvars>>

\* A read that hands its error code back as the status of the function.
RowReadFailsReturnsCode ==
  /\ InRows
  /\ ~tuple.null
  /\ ReadFails(building, tuple, buildMap)
  /\ returned' = <<1>>
  /\ buildpc' = "returned"
  /\ UNCHANGED <<building, wdaError, httpStatus, dataset, row, buildMap, othervars,
                 fitvars, simvars>>

\* A read of a column of the row reports an error: an exception.
RowReadFails ==
  /\ InRows
  /\ ~tuple.null
  /\ ReadFails(building, tuple, buildMap)
  /\ buildpc' = "thrown"
  /\ UNCHANGED <<building, wdaError, httpStatus, dataset, row, buildMap, returned,
                 othervars, fitvars, simvars>>

\* All reads of the row went well and the row goes into the map.
FillMap ==
  /\ InRows
  /\ ~tuple.null
  /\ ~ReadFails(building, tuple, buildMap)
  /\ UsesRow(building, tuple)
  /\ buildMap' = MapAfter(building, tuple, buildMap, row)
  /\ row' = row + 1
  /\ UNCHANGED <<building, wdaError, httpStatus, dataset, returned, buildpc, othervars,
                 fitvars, simvars>>

\* The loop over the rows is over: return 0.
ReturnZero ==
  /\ buildpc = "rows"
  /\ row > Len(dataset.rows)
  /\ returned' = <<0>>
  /\ buildpc' = "returned"
  /\ UNCHANGED <<building, wdaError, httpStatus, dataset, row, buildMap, othervars,
                 fitvars, simvars>>

BuildNext ==
  \/ GetDatasetFails
  \/ GetDataset
  \/ FindColumnsFails
  \/ FindColumns
  \/ SkipRow
  \/ RowReadFails
  \/ FillMap
  \/ ReturnZero

\* Largest number of rows after the header.
MaxRows == 2

BuildFunctions ==
  {"BuildTPCFragmentIDToReadoutIDMap", "BuildTPCReadoutBoardToChannelMap",
   "BuildPMTFragmentToDigitizerChannelMap",
   "BuildCRTChannelIDToHWtoSimMacAddressPairMap",
   "BuildTopCRTHWtoSimMacAddressPairMap", "BuildSideCRTCalibrationMap"}

\* Every column the function may read.
AllColumns(fn) ==
  LET all == Columns(fn, [null |-> FALSE, bad |-> "none", key |-> 0, flag |-> TRUE], <<>>)
  IN  { all[k] : k \in 1..Len(all) }

Tuples(fn) ==
  {NullTuple}
    \cup { [null |-> FALSE, bad |-> b, key |-> k, flag |-> f]
             : b \in {"none"} \cup AllColumns(fn), k \in {0, 1},
               f \in (IF fn \in {"BuildTPCFragmentIDToReadoutIDMap",
                                  "BuildSideCRTCalibrationMap"}
                      THEN BOOLEAN ELSE {TRUE}) }

\* What the database answers: nothing to read after a failed access.
Datasets(fn, error) ==
  IF error # 0 THEN { [header |-> 0, rows |-> <<>>] }
  ELSE { [header |-> h, rows |-> rs]
           : h \in (IF HasHeader(fn) THEN {0, 1} ELSE {0}),
             rs \in UNION { [1..n -> Tuples(fn)] : n \in 0..MaxRows } }

BuildInit ==
  /\ MatchIdle
  /\ BoxIdle
  /\ SimIdle
  /\ FitIdle
  /\ building \in BuildFunctions
  /\ wdaError \in {0, 1}
  /\ httpStatus \in {200, 404}
  /\ dataset \in Datasets(building, wdaError)
  /\ row = 0
  /\ buildMap = <<>>
  /\ returned = <<>>
  /\ buildpc = "call"

BuildSpec == BuildInit /\ [][BuildNext]_vars

\* ------------------------------------- PeakFitterICARUS::findPeakParameters
\* std::numeric_limits<double>::infinity(), as a double that may be infinite.
Infinity == [num |-> 1, den |-> 0]

startTime == hitCandidateVec[1].startTick

endTime == hitCandidateVec[Len(hitCandidateVec)].stopTick

roiSize == endTime - startTime

\* fitResult after the try block: -1 unless Fit has returned its status.
fitResult == IF fitOutcome.throws THEN -1 ELSE fitOutcome.status

\* roiSignalVec.at(startTime + idx) throws for one of the idx below roiSize.
SignalOutOfRange == roiSize > 0 /\ startTime + roiSize - 1 >= roiSignalSize

\* NDF after the if of line 151: assigned when the fit has failed.
NDFAfterFit == IF fitResult # 0 THEN roiSize - 5 ELSE NDF

\* Line 88: an empty list of candidates, nothing is touched.
FindPeakParametersEmpty ==
  /\ fitpc = "call"
  /\ hitCandidateVec = <<>>
  /\ fitpc' = "done"
  /\ UNCHANGED <<hitCandidateVec, roiSignalSize, fitOutcome, chisquare, peakParamsVec,
                 chi2PerNDF, NDF, othervars, dbvars, simvars>>

\* Lines 91-105 when the signal is shorter than the candidates say: at() throws
\* after chi2PerNDF was set.
FindPeakParametersOutOfRange ==
  /\ fitpc = "call"
  /\ hitCandidateVec # <<>>
  /\ SignalOutOfRange
  /\ chi2PerNDF' = Infinity
  /\ fitpc' = "thrown"
  /\ UNCHANGED <<hitCandidateVec, roiSignalSize, fitOutcome, chisquare, peakParamsVec,
                 NDF, othervars, dbvars, simvars>>

\* Lines 91-185: the fit and what is handed back.
FindPeakParameters ==
  /\ fitpc = "call"
  /\ hitCandidateVec # <<>>
  /\ ~SignalOutOfRange
  /\ NDF' = NDFAfterFit
  /\ chi2PerNDF' = ExtQuot(chisquare, NDFAfterFit)
  /\ peakParamsVec' = peakParamsVec
                        \o [idx \in 1..Len(hitCandidateVec) |-> [fitResult |-> fitResult]]
  /\ fitpc' = "done"
  /\ UNCHANGED <<hitCandidateVec, roiSignalSize, fitOutcome, chisquare, othervars,
                 dbvars, simvars>>

FitNext ==
  \/ FindPeakParametersEmpty
  \/ FindPeakParametersOutOfRange
  \/ FindPeakParameters

\* Largest number of candidates in one call.
MaxCandidates == 2

HitCandidates == { [startTick |-> a, stopTick |-> b] : a \in {0, 1}, b \in {5, 6, 7} }

HitCandidateVecs ==
  UNION { [1..n -> HitCandidates] : n \in 0..MaxCandidates }

FitOutcomes ==
  { [throws |-> TRUE, status |-> 0], [throws |-> FALSE, status |-> 0],
    [throws |-> FALSE, status |-> 4] }

FitInit ==
  /\ MatchIdle
  /\ BoxIdle
  /\ SimIdle
  /\ DbIdle
  /\ hitCandidateVec \in HitCandidateVecs
  /\ roiSignalSize \in {6, 8}
  /\ fitOutcome \in FitOutcomes
  /\ chisquare \in {0, 2, 3}
  /\ peakParamsVec = <<>>
  /\ chi2PerNDF = [num |-> 0, den |-> 1]
  /\ NDF \in {1, 2}
  /\ fitpc = "call"

FitSpec == FitInit /\ [][FitNext]_vars

\* -------------------------------------------------------------- properties
\* GetClosestCRTHit has run to its end (a wrapper returns before it for a short track).
Matched == pc = "done" /\ (entry = "GetClosestCRTHit" \/ tpcTrack.length >= cfg.MinTrackLength)

CandSet == { t0Candidates[k] : k \in 1..Len(t0Candidates) }

\* C1: with DCAoverLength enabled, GetClosestCRTHit returns a retained candidate
\* whose dca/extrapLen is the smallest of all retained candidates.
C1_SmallestDCAoverLength ==
  (Matched /\ cfg.DCAoverLength /\ t0Candidates # <<>>)
    => /\ bestmatch \in CandSet
       /\ \A c \in CandSet : ~FracLess(SinAngle(c), SinAngle(bestmatch))

\* C2: with DCAoverLength disabled, GetClosestCRTHit returns a retained
\* candidate whose dca is the smallest of all retained candidates, wherever it
\* stands in the list.
C2_SmallestDCA ==
  (Matched /\ ~cfg.DCAoverLength /\ t0Candidates # <<>>)
    => /\ bestmatch \in CandSet
       /\ \A c \in CandSet : ~FracLess(c.dca, bestmatch.dca)

\* Two candidates or more, and the one returned is closer than the first.
C2_LaterCandidateWins ==
  /\ Matched
  /\ ~cfg.DCAoverLength
  /\ Len(t0Candidates) >= 2
  /\ FracLess(bestmatch.dca, t0Candidates[1].dca)

\* Module 1 holds two hits, at ticks 0 and 50; the three layer coincidence
\* windows are `window' microseconds and the dead time 200.
TwoHitsFiftyApart(window) ==
  /\ 1 \in DOMAIN taggers
  /\ Len(taggers[1].data) = 2
  /\ { taggers[1].data[k].T0 : k \in 1..2 } = {0, 50}
  /\ simcfg.LayerCoincidenceWindowC = window * WindowScale
  /\ simcfg.LayerCoincidenceWindowD = window * WindowScale
  /\ simcfg.LayerCoincidenceWindowM = window * WindowScale
  /\ simcfg.DeadTime = 200

\* No layer and no cross-module requirement is in force.
NoCoincidenceRequired ==
  ~simcfg.ApplyCoincidenceC /\ ~simcfg.ApplyCoincidenceD /\ ~simcfg.ApplyCoincidenceM

\* The readouts of the output collection that module mac5 gave.
ReadoutsOf(mac5) == SelectSeq(triggeredCRTHits, LAMBDA r : r.Mac5 = mac5)

\* C3: two hits on two channels of one module, 50 apart, with a coincidence
\* window of 100, a dead time of 200 and no coincidence requirement, end up as
\* exactly one readout of the output collection, which holds both hits.
C3_OneReadoutWithBothHits ==
  (/\ simpc = "done"
   /\ TwoHitsFiftyApart(100)
   /\ taggers[1].data[1].Channel # taggers[1].data[2].Channel
   /\ NoCoincidenceRequired)
    => /\ Len(ReadoutsOf(1)) = 1
       /\ \A k \in 1..2 :
            \E j \in 1..Len(ReadoutsOf(1)[1].ChanData) :
              ReadoutsOf(1)[1].ChanData[j] = taggers[1].data[k]

\* C4: two hits on one module, 50 apart, with a coincidence window of 30 and a
\* dead time of 200, are split into two readouts of the output, the second hit
\* being the trigger of the second.
C4_SplitIntoTwoReadouts ==
  (simpc = "done" /\ TwoHitsFiftyApart(30))
    => /\ Len(ReadoutsOf(1)) = 2
       /\ ReadoutsOf(1)[2].TTrig = ClockTime(50)

\* C4, as the code has it: with no coincidence requirement in force the second
\* hit falls inside the dead time of the first and is dropped; the first hit
\* stays the trigger, alone in the held data, and no readout of the output has
\* the second hit as trigger or among its data.
C4_SecondHitDropped ==
  (TwoHitsFiftyApart(30) /\ NoCoincidenceRequired)
    => /\ (trgFirst = 1 /\ dataIndex = 2)
            => /\ chanTrigData.T0 = 0
               /\ ttrig = ClockTime(0)
               /\ passingData = <<chanTrigData>>
               /\ trackNHold = {chanTrigData.Channel}
       /\ \A k \in 1..Len(ReadoutsOf(1)) :
            /\ ReadoutsOf(1)[k].TTrig # ClockTime(50)
            /\ \A j \in 1..Len(ReadoutsOf(1)[k].ChanData) :
                 ReadoutsOf(1)[k].ChanData[j].T0 # 50

\* The pass is over and the second of the two hits went through the loop.
C4_SecondHitProcessed ==
  /\ TwoHitsFiftyApart(30)
  /\ NoCoincidenceRequired
  /\ simpc = "done"
  /\ trgFirst = 1
  /\ dataIndex = 2

C6_MatchInsideWindow ==
  (Matched /\ NonNegative(bestmatch.dca) /\ ~(t0MinMax.first = 0 /\ t0MinMax.second = 0))
    => InT0RangeNoEqual(bestmatch.t0, t0MinMax)

\* C7: with driftDirection 0 the window is (0,0), and with the window (0,0) no
\* hit is rejected on account of its time.
C7_ZeroWindowAcceptsEveryTime ==
  Matched
    => /\ driftDirection = 0 => (t0MinMax.first = 0 /\ t0MinMax.second = 0)
       /\ (t0MinMax.first = 0 /\ t0MinMax.second = 0)
            => \A k \in 1..Len(skipped) : skipped[k] # "time"

\* A track that does not drift, and a hit whose time is far from 0 that the loop
\* went on to score.
C7_FarTimeScored ==
  /\ Matched
  /\ driftDirection = 0
  /\ \E k \in 1..Len(crtHits) :
       /\ ~InT0RangeNoEqual(CrtTime(crtHits[k]), t0MinMax)
       /\ skipped[k] = "kept"

\* C8: for drift direction +1 or -1 and a drift velocity of either sign the
\* window TrackT0Range returns has tMin <= tMax.
C8_WindowOrdered ==
  (pc = "done" /\ entry = "TrackT0Range" /\ driftDirection # 0)
    => t0MinMax.first <= t0MinMax.second

\* A negative drift velocity and a window that is not a single point.
C8_NegativeVelocity ==
  /\ pc = "done"
  /\ entry = "TrackT0Range"
  /\ driftDirection # 0
  /\ driftVelocity < 0
  /\ t0MinMax.first < t0MinMax.second

MatchReportable ==
  /\ tpcTrack.length >= cfg.MinTrackLength
  /\ t0Candidates # <<>>
  /\ bestmatch \in CandSet
  /\ NonNegative(bestmatch.dca)
  /\ bestmatch.extrapLen > 0
  /\ bestmatch.dca.num < cfg.DistanceLimit * cfg.DistanceLimit * bestmatch.dca.den
  /\ bestmatch.dca.num * cfg.DoverLLimit.den * cfg.DoverLLimit.den
       < cfg.DoverLLimit.num * cfg.DoverLLimit.num * bestmatch.dca.den * bestmatch.extrapLen

\* C10: T0FromCRTHits and T0AndDCAFromCRTHits report a match exactly when the
\* track is long enough and the best candidate exists with 0 <= dca <
\* DistanceLimit and dca/extrapLen < DoverLLimit; otherwise they return -99999,
\* resp. (-9999,-9999).
C10_MatchOrSentinel ==
  /\ (pc = "done" /\ entry = "T0FromCRTHits")
       => IF MatchReportable
          THEN ftime = T0Time(bestmatch) /\ ftime # Time(0, NullValue)
          ELSE ftime = Time(0, NullValue)
  /\ (pc = "done" /\ entry = "T0AndDCAFromCRTHits")
       => IF MatchReportable
          THEN /\ ft0anddca = [first |-> bestmatch.t0, second |-> bestmatch.dca]
               /\ ft0anddca # NullPair
          ELSE ft0anddca = NullPair

\* A match reported with two candidates or more to choose from.
C10_MatchReported ==
  /\ pc = "done"
  /\ entry = "T0AndDCAFromCRTHits"
  /\ Len(t0Candidates) >= 2
  /\ ft0anddca # NullPair

\* C11: in TSMode other than 1, whenever a match is accepted, the time
\* T0FromCRTHits returns is the trigger-relative, normalised time of the matched
\* hit, the first element of what T0AndDCAFromCRTHits returns for the same
\* inputs.
C11_SameTimeFromBothWrappers ==
  (/\ pc = "done"
   /\ entry = "T0FromCRTHits"
   /\ cfg.TSMode # 1
   /\ ftime # Time(0, NullValue))
    => ftime = T0AndDCAFromCRTHitsResult(bestmatch).first

\* A hit that passes the quality cuts of lines 425-428.
GoodQuality(crtHit) ==
  /\ crtHit.peshit >= cfg.PEcut
  /\ \A k \in 1..3 : crtHit.err[k] <= cfg.MaxUncert

\* C12: GetClosestCRTHit never returns, nor keeps as candidate, a hit whose
\* photoelectron yield is below PEcut or one of whose position uncertainties
\* is above MaxUncert.
C12_NoLowQualityMatch ==
  Matched
    => /\ \A c \in CandSet : GoodQuality(c.thishit)
       /\ NonNegative(bestmatch.dca) => GoodQuality(bestmatch.thishit)

\* A hit in time that the cuts removed although it lies closer to the track
\* than the hit that was returned.
C12_CloserHitCut ==
  /\ Matched
  /\ NonNegative(bestmatch.dca)
  /\ \E k \in 1..Len(crtHits) :
       /\ skipped[k] \in {"pe", "uncert"}
       /\ FracLess(StartDist(crtHits[k], CrtTime(crtHits[k])), bestmatch.dca)

\* The layer coincidence window of the type of a tagger.
WindowOf(tagger) ==
  CASE tagger.type = "c" -> simcfg.LayerCoincidenceWindowC
    [] tagger.type = "d" -> simcfg.LayerCoincidenceWindowD
    [] tagger.type = "m" -> simcfg.LayerCoincidenceWindowM

\* The times of the entries of a tagger.
TimesOf(tagger) == { ClockTime(tagger.data[k].T0) : k \in 1..Len(tagger.data) }

\* The record d, whatever its ADC has become, is among the records ds.
HoldsHit(ds, d) ==
  \E j \in 1..Len(ds) : ds[j].Channel = d.Channel /\ ds[j].T0 = d.T0

\* C13: a hit whose time t has trigger + window <= t <= trigger + DeadTime for
\* the current trigger of its module is in no readout and is the trigger of
\* none.  Stated for the hits at the second earliest time of a module, for which
\* the current trigger is a hit at the earliest.
C13_DeadTimeHitNeverEmitted ==
  \A k \in DOMAIN taggers :
    \A t \in TimesOf(taggers[k]) :
      LET first == CHOOSE e \in TimesOf(taggers[k]) : \A u \in TimesOf(taggers[k]) : e <= u
      IN  (/\ t > first
           /\ \A u \in TimesOf(taggers[k]) : u > first => t <= u
           /\ (t - first) * WindowScale >= WindowOf(taggers[k])
           /\ t <= first + simcfg.DeadTime)
            => \A j \in 1..Len(ReadoutsOf(k)) :
                 /\ ReadoutsOf(k)[j].TTrig # t
                 /\ \A i \in 1..Len(ReadoutsOf(k)[j].ChanData) :
                      ClockTime(ReadoutsOf(k)[j].ChanData[i].T0) # t

\* C13, as the code has it: a hit with trigger + window <= t <= trigger +
\* DeadTime at which the current trigger does not fail its coincidence check
\* (so that the hit does not take the trigger over) is counted as lost to dead
\* time; such a hit is in no readout of its module, is the trigger of none, and
\* is neither the current trigger nor among the held data.
C13_DeadTimeHitDropped ==
  /\ (simpc = "data" /\ dataIndex >= 2)
       => LET x == trg.data[dataIndex]
          IN  (/\ x # chanTrigData
               /\ (ClockTime(x.T0) - ttrig) * WindowScale >= WindowOf(trg)
               /\ ClockTime(x.T0) <= ttrig + simcfg.DeadTime)
                => <<trgFirst, x>> \in missDead
  /\ \A m \in missDead :
       /\ \A j \in 1..Len(ReadoutsOf(m[1])) :
            /\ ~HoldsHit(ReadoutsOf(m[1])[j].ChanData, m[2])
            /\ ~(/\ ReadoutsOf(m[1])[j].ChanTrig = m[2].Channel
                 /\ ReadoutsOf(m[1])[j].TTrig = ClockTime(m[2].T0))
       /\ m[1] = trgFirst => (chanTrigData # m[2] /\ ~HoldsHit(passingData, m[2]))

\* A hit was lost to dead time and its module went on to give a readout.
C13_DroppedThenReadOut ==
  /\ simpc = "done"
  /\ \E m \in missDead : Len(ReadoutsOf(m[1])) >= 1

\* The step that reads the held data out under the current trigger and makes
\* the hit at hand the trigger of a new readout that holds that hit alone.
ReadOutAndRestart ==
  /\ Len(triggeredCRTHits') = Len(triggeredCRTHits) + 1
  /\ SubSeq(triggeredCRTHits', 1, Len(triggeredCRTHits)) = triggeredCRTHits
  /\ LET out == triggeredCRTHits'[Len(triggeredCRTHits')]
     IN  /\ out.Mac5 = trgFirst
         /\ out.TTrig = ttrig
         /\ out.ChanTrig = chanTrigData.Channel
         /\ out.ChanData = passingData
  /\ chanTrigData' = chanTmpData
  /\ ttrig' = ttmp
  /\ trackNHold' = {chanTmpData.Channel}
  /\ layerNHold' = {trg.chanlayer[chanTmpData.Channel]}
  /\ passingData' = <<chanTmpData>>

C15_TriggersApartByDeadTime ==
  \A i, j \in 1..Len(triggeredCRTHits) :
    (i < j /\ triggeredCRTHits[i].Mac5 = triggeredCRTHits[j].Mac5)
      => triggeredCRTHits[j].TTrig > triggeredCRTHits[i].TTrig + simcfg.DeadTime

\* One module gave two readouts.
C15_TwoReadoutsOfOneModule ==
  /\ simpc = "done"
  /\ \E i, j \in 1..Len(triggeredCRTHits) :
       /\ i < j
       /\ triggeredCRTHits[i].Mac5 = triggeredCRTHits[j].Mac5
       /\ triggeredCRTHits[j].TTrig > triggeredCRTHits[i].TTrig

\* C16: with ApplyCoincidenceM enabled, every readout emitted for an M module
\* has a partner: another M module with a different identifier, the same stack
\* and the same region, holding layer 1 where the readout's module holds layer
\* 0 or layer 0 where it holds layer 1, with a hit whose time differs from the
\* trigger time of the readout by less than the M layer coincidence window.
C16_MinosReadoutHasPartner ==
  simcfg.ApplyCoincidenceM =>
    \A i \in 1..Len(triggeredCRTHits) :
      LET out == triggeredCRTHits[i]
          own == taggers[out.Mac5]
      IN  own.type = "m" =>
            \E k2 \in DOMAIN taggers :
              /\ taggers[k2].type = "m"
              /\ k2 # out.Mac5
              /\ taggers[k2].stackid = own.stackid
              /\ taggers[k2].reg = own.reg
              /\ \/ (0 \in own.layerid /\ 1 \in taggers[k2].layerid)
                 \/ (1 \in own.layerid /\ 0 \in taggers[k2].layerid)
              /\ \E j \in 1..Len(taggers[k2].data) :
                   LET t2 == ClockTime(taggers[k2].data[j].T0)
                   IN  /\ (t2 - out.TTrig) * WindowScale < simcfg.LayerCoincidenceWindowM
                       /\ (out.TTrig - t2) * WindowScale < simcfg.LayerCoincidenceWindowM

\* An M module gave a readout under the cross-module coincidence whose trigger
\* is not the earliest hit of the module.
C16_MinosReadoutOfLaterHit ==
  /\ simpc = "done"
  /\ simcfg.ApplyCoincidenceM
  /\ \E i \in 1..Len(triggeredCRTHits) :
       /\ taggers[triggeredCRTHits[i].Mac5].type = "m"
       /\ \E j \in 1..Len(taggers[triggeredCRTHits[i].Mac5].data) :
            ClockTime(taggers[triggeredCRTHits[i].Mac5].data[j].T0)
              < triggeredCRTHits[i].TTrig

\* The orders in which a list of n hits can be handed over.
Orders(n) == { f \in [1..n -> 1..n] : \A a, b \in 1..n : a # b => f[a] # f[b] }

\* What GetClosestCRTHit returns for the hits of the call taken in the order f.
BestMatchInOrder(f) ==
  SelectBest(Candidates([k \in 1..Len(crtHits) |-> crtHits[f[k]]], 1, t0MinMax))

SameValue(a, b) == ~IsNaN(a) /\ ~IsNaN(b) /\ ~FracLess(a, b) /\ ~FracLess(b, a)

\* No two candidates have the same dca or the same dca/extrapLen.
DistinctScores ==
  \A a, b \in 1..Len(t0Candidates) :
    a # b => /\ ~SameValue(t0Candidates[a].dca, t0Candidates[b].dca)
             /\ ~SameValue(SinAngle(t0Candidates[a]), SinAngle(t0Candidates[b]))

\* C17: for a fixed track, window, trigger and configuration, the hit and the
\* DCA of the match GetClosestCRTHit returns do not depend on the order of the
\* hits, in both selection modes, when the candidates have pairwise distinct
\* dca and dca/extrapLen.
C17_OrderIndependent ==
  (Matched /\ DistinctScores)
    => \A f \in Orders(Len(crtHits)) :
         /\ BestMatchInOrder(f).thishit = bestmatch.thishit
         /\ SameValue(BestMatchInOrder(f).dca, bestmatch.dca)

\* The hit passes the cut on the time and the cuts on the quality.
PassesCuts(crtHit) == InT0Range(CrtTime(crtHit), t0MinMax) /\ GoodQuality(crtHit)

\* The shifted start of the track is strictly nearer to the hit than the end.
StartNearer(crtHit) ==
  Mag2(VSub(crtHit.pos, ThisStart(CrtTime(crtHit))))
    < Mag2(VSub(crtHit.pos, ThisEnd(CrtTime(crtHit))))

\* C20: a hit that passes the time and quality cuts gets exactly one candidate
\* if its DCA from the start or from the end is below DistanceLimit and none
\* otherwise; the candidate has the dca and extrapLen of the start when the
\* shifted start is strictly nearer to the hit, else those of the end.
C20_OneCandidatePerCloseHit ==
  Matched =>
    \A k \in 1..Len(crtHits) :
      LET crtHit == crtHits[k]
          crtTime == CrtTime(crtHit)
          own == { j \in 1..Len(t0Candidates) : t0Candidates[j].thishit = crtHit }
      IN  PassesCuts(crtHit) =>
            IF \/ FracBelow(StartDist(crtHit, crtTime), cfg.DistanceLimit)
               \/ FracBelow(EndDist(crtHit, crtTime), cfg.DistanceLimit)
            THEN /\ Cardinality(own) = 1
                 /\ \A j \in own :
                      IF StartNearer(crtHit)
                      THEN /\ t0Candidates[j].dca = StartDist(crtHit, crtTime)
                           /\ t0Candidates[j].extrapLen
                                = Mag2(VSub(crtHit.pos, ThisStart(crtTime)))
                      ELSE /\ t0Candidates[j].dca = EndDist(crtHit, crtTime)
                           /\ t0Candidates[j].extrapLen
                                = Mag2(VSub(crtHit.pos, ThisEnd(crtTime)))
            ELSE own = {}

\* One call saw a hit nearer to the end whose two DCAs differ, a hit nearer to
\* the start, and a hit that passed the cuts but is far from both ends.
C20_StartEndAndFar ==
  /\ Matched
  /\ \E a, b, c \in 1..Len(crtHits) :
       /\ skipped[a] = "kept" /\ ~StartNearer(crtHits[a])
       /\ StartDist(crtHits[a], CrtTime(crtHits[a])) # EndDist(crtHits[a], CrtTime(crtHits[a]))
       /\ skipped[b] = "kept" /\ StartNearer(crtHits[b])
       /\ skipped[c] = "far" /\ PassesCuts(crtHits[c])

\* The point start + (n/d) * direction of the track lies in the box of the hit.
InBox(n, d) ==
  \A k \in 1..3 :
    /\ boxStart[k] * d + n * boxDir[k] >= (boxHit.pos[k] - boxHit.err[k]) * d
    /\ boxStart[k] * d + n * boxDir[k] <= (boxHit.pos[k] + boxHit.err[k]) * d

\* The segment from the start to start + direction passes through the box.  With
\* whole coordinates a segment that meets the box meets it at a parameter n/d
\* with d no larger than a component of the direction.
SegmentThroughBox == \E d \in 1..MaxBoxDir : \E n \in 0..d : InBox(n, d)

\* C18: in box mode, when the segment between the shifted start and the end
\* passes through the axis-aligned box centred on the hit with the hit's
\* uncertainties as half-widths, DistToCrtHit returns 0.
C18_ThroughBoxIsZero ==
  (boxpc = "done" /\ SegmentThroughBox) => thisdca.num = 0

\* A track that starts outside a cube, runs along no axis and ends off the
\* centre of the cube was measured, and its segment passes through the cube.
C18_IntoCube ==
  /\ boxpc = "done"
  /\ boxHit.err = <<1, 1, 1>>
  /\ SegmentThroughBox
  /\ ~InBox(0, 1)
  /\ VAdd(boxStart, boxDir) # boxHit.pos
  /\ \A k \in 1..3 : boxDir[k] # 0

\* The DCA of point mode for the call.
PointDCA == SimpleDCA(boxHit, boxStart, boxDir)

\* C19: for a hit whose uncertainties are all zero, the DCA of box mode
\* (DistToCrtHit on start and start + direction) equals the DCA of point mode
\* (SimpleDCA on the same start and direction), for every start and nonzero
\* direction.
C19_PointBoxSameAsPoint ==
  (boxpc = "done" /\ boxHit.err = <<0, 0, 0>> /\ boxDir # <<0, 0, 0>>)
    => thisdca.num * PointDCA.den = PointDCA.num * thisdca.den

LineThroughBox ==
  \/ boxDir = <<0, 0, 0>> /\ InBox(0, 1)
  \/ \E k \in 1..3 : \E side \in {-1, 1} :
       /\ boxDir[k] # 0
       /\ InBox(Sign(boxDir[k]) * (boxHit.pos[k] + side * boxHit.err[k] - boxStart[k]),
                Abs(boxDir[k]))

\* The point p1 + (n/m) * (p2 - p1) of an edge, times m.
EdgePoint(p1, p2, n, m) == [k \in 1..3 |-> m * p1[k] + n * (p2[k] - p1[k])]

\* The squared distance of the point q/m from the line of the track.
PointLineDistance(q, m) ==
  LET rel == [k \in 1..3 |-> q[k] - m * boxStart[k]]
  IN  Rat(Mag2(rel) * Mag2(boxDir) - Dot(rel, boxDir) * Dot(rel, boxDir),
          m * m * Mag2(boxDir))

\* The squared distance of the edge from p1 to p2 from the line of the track:
\* the distance at the point of the edge nearest to the line.
EdgeLineDistance(p1, p2) ==
  LET u == VSub(p2, p1)
      w == VSub(p1, boxStart)
      D == Dot(u, u) * Mag2(boxDir) - Dot(u, boxDir) * Dot(u, boxDir)
      n == Dot(u, boxDir) * Dot(boxDir, w) - Mag2(boxDir) * Dot(u, w)
  IN  IF D = 0 \/ n <= 0 THEN PointLineDistance(EdgePoint(p1, p2, 0, 1), 1)
      ELSE IF n >= D THEN PointLineDistance(EdgePoint(p1, p2, 1, 1), 1)
      ELSE PointLineDistance(EdgePoint(p1, p2, n, D), D)

\* The corner of the rectangle through the hit centre perpendicular to the
\* axis k, on the sides sa and sb of the two other axes.
Corner(k, sa, sb) ==
  LET p == boxHit.pos
      r == boxHit.err
  IN  IF k = 1 THEN <<p[1], p[2] + sa * r[2], p[3] + sb * r[3]>>
      ELSE IF k = 2 THEN <<p[1] + sa * r[1], p[2], p[3] + sb * r[3]>>
      ELSE <<p[1] + sa * r[1], p[2] + sb * r[2], p[3]>>

\* The squared distance of the line of the track from the four edges of that
\* rectangle.
RectangleDistance(k) ==
  RatMin(RatMin(EdgeLineDistance(Corner(k, -1, -1), Corner(k, 1, -1)),
                EdgeLineDistance(Corner(k, -1, -1), Corner(k, -1, 1))),
         RatMin(EdgeLineDistance(Corner(k, 1, 1), Corner(k, 1, -1)),
                EdgeLineDistance(Corner(k, 1, 1), Corner(k, -1, 1))))

SmallestErr(k) == \A j \in 1..3 : boxHit.err[k] <= boxHit.err[j]

\* C22: when the line of the track does not cross the box of the hit,
\* DistToCrtHit is the distance to the four edges of the rectangle through the
\* hit centre perpendicular to the axis with the smallest uncertainty, ties
\* included.
C22_EdgesAcrossSmallestAxis ==
  (boxpc = "done" /\ boxDir # <<0, 0, 0>> /\ ~LineThroughBox)
    => \E k \in 1..3 : SmallestErr(k) /\ thisdca = RectangleDistance(k)

\* The module asks for a coincidence of its two layers.
LayerCoincidenceAsked(tagger) ==
  \/ (tagger.type = "c" /\ simcfg.ApplyCoincidenceC)
  \/ (tagger.type = "d" /\ simcfg.ApplyCoincidenceD)

\* The layers of the records of a readout of a module.
LayersOf(tagger, r) ==
  { tagger.chanlayer[r.ChanData[j].Channel] : j \in 1..Len(r.ChanData) }

C24_RecordsInsideWindow ==
  \A i \in 1..Len(triggeredCRTHits) :
    LET r == triggeredCRTHits[i]
    IN  /\ r.ChanData # <<>>
        /\ r.ChanData[1].Channel = r.ChanTrig
        /\ ClockTime(r.ChanData[1].T0) = r.TTrig
        /\ \A j \in 1..Len(r.ChanData) :
             /\ r.TTrig <= ClockTime(r.ChanData[j].T0)
             /\ (ClockTime(r.ChanData[j].T0) - r.TTrig) * WindowScale
                  < WindowOf(taggers[r.Mac5])

\* A readout holds a record of a hit that came after its trigger.
C24_ReadoutWithLaterRecord ==
  /\ simpc = "done"
  /\ \E i \in 1..Len(triggeredCRTHits) :
       \E j \in 1..Len(triggeredCRTHits[i].ChanData) :
         ClockTime(triggeredCRTHits[i].ChanData[j].T0) > triggeredCRTHits[i].TTrig

\* The trigger fails the check of its type at the hit at hand: a C or D module
\* holds one layer and the hit is later than the window, an M module has no
\* tagger with a hit in time with the trigger.
TriggerFailsCoincidence ==
  \/ /\ trg.type = "c" /\ simcfg.ApplyCoincidenceC
     /\ Cardinality(layerNHold) = 1
     /\ (ttmp - ttrig) * WindowScale > simcfg.LayerCoincidenceWindowC
  \/ /\ trg.type = "d" /\ simcfg.ApplyCoincidenceD
     /\ Cardinality(layerNHold) = 1
     /\ (ttmp - ttrig) * WindowScale > simcfg.LayerCoincidenceWindowD
  \/ /\ trg.type = "m" /\ simcfg.ApplyCoincidenceM
     /\ MinosPartners = {}

\* C25: at a hit at which the trigger fails its coincidence check, the hit
\* becomes the trigger, what was held for the failed trigger is replaced by the
\* channel, layer and record of the hit, and no readout is added.
C25_FailedTriggerHandsOver ==
  [][ (InDataLoop /\ TriggerFailsCoincidence) =>
        /\ chanTrigData' = chanTmpData
        /\ ttrig' = ttmp
        /\ trackNHold' = {chanTmpData.Channel}
        /\ layerNHold' = {trg.chanlayer[chanTmpData.Channel]}
        /\ passingData' = <<chanTmpData>>
        /\ triggeredCRTHits' = triggeredCRTHits ]_vars

\* The trigger of the first module is no longer its earliest entry although
\* nothing was read out: a hit has taken a failed trigger over.
C25_TriggerHandedOver ==
  /\ simpc = "data"
  /\ triggeredCRTHits = <<>>
  /\ chanTrigData # trg.data[1]
  /\ passingData = <<chanTrigData>>

\* The places of the records of a readout that lie on another layer than its
\* trigger record.
SecondLayerRecords(tagger, r) ==
  { j \in 1..Len(r.ChanData) :
      tagger.chanlayer[r.ChanData[j].Channel] # tagger.chanlayer[r.ChanTrig] }

\* The pair that the window of a readout records: its trigger channel with the
\* channel of its first record on a second layer, and the pair of the
\* declaration if it has no such record.
WindowPair(tagger, r) ==
  IF SecondLayerRecords(tagger, r) = {} THEN DefaultPair
  ELSE LET j == CHOOSE a \in SecondLayerRecords(tagger, r) :
                  \A b \in SecondLayerRecords(tagger, r) : a <= b
       IN  <<r.ChanTrig, r.ChanData[j].Channel>>

\* C26: the channel pair of every readout is the pair of its own window: the
\* trigger channel with the channel of the first hit of the window on a second
\* layer, and never a pair left from an earlier window of the module.
C26_PairOfOwnWindow ==
  \A i \in 1..Len(triggeredCRTHits) :
    triggeredCRTHits[i].TrigPair
      = WindowPair(taggers[triggeredCRTHits[i].Mac5], triggeredCRTHits[i])

\* The readouts that hold two layers do carry the pair of their own window.
PairOfTwoLayerWindow ==
  \A i \in 1..Len(triggeredCRTHits) :
    SecondLayerRecords(taggers[triggeredCRTHits[i].Mac5], triggeredCRTHits[i]) # {}
      => triggeredCRTHits[i].TrigPair
           = WindowPair(taggers[triggeredCRTHits[i].Mac5], triggeredCRTHits[i])

\* C27: no step of the pass changes the map of the taggers: the data, layerid,
\* chanlayer and macPair of every entry stay what they were.
C27_TaggersOnlyRead ==
  [][taggers' = taggers]_vars

\* The pass is over and the copy of a module differs from the entry of the map
\* both in the order of its data and in its module pair.
C27_CopySortedAndPaired ==
  /\ simpc = "done"
  /\ trg.data # taggers[trgFirst].data
  /\ trg.macPair # taggers[trgFirst].macPair

\* C28: a hit of the readout at hand on a channel that is held, inside the
\* window and before trigger time + BiasTime, adds its ADC to the record of its
\* own channel and leaves the records of the other channels as they are.
C28_BiasADCOnOwnChannel ==
  [][ (/\ InDataLoop
       /\ PastRetries
       /\ InReadoutWindow
       /\ chanTmpData.Channel \in trackNHold
       /\ ttmp < ttrig + simcfg.BiasTime)
        => /\ Len(passingData') = Len(passingData)
           /\ \A j \in 1..Len(passingData) :
                passingData'[j] =
                  IF passingData[j].Channel = chanTmpData.Channel
                  THEN [passingData[j] EXCEPT !.ADC = @ + chanTmpData.ADC]
                  ELSE passingData[j] ]_vars

\* C30: when the fit fails for a list of candidates that is not empty, the
\* chi2PerNDF handed back is infinity.
C30_FailedFitInfiniteChi2 ==
  (/\ fitpc = "done"
   /\ hitCandidateVec # <<>>
   /\ fitResult # 0)
    => chi2PerNDF = Infinity

\* The row i has the key of an earlier row that the function has put into the
\* map.
KeyKnownBefore(i) ==
  \E j \in 1..(i - 1) :
    /\ ~dataset.rows[j].null
    /\ UsesRow(building, dataset.rows[j])
    /\ dataset.rows[j].key = dataset.rows[i].key

\* The columns of row i that the function needs: those it reads of every row
\* it uses, and the slot or flange column for a key it has not seen yet.
NeededColumns(i) ==
  IF building = "BuildTPCFragmentIDToReadoutIDMap"
  THEN {"fragement_id"}
         \cup (IF dataset.rows[i].flag THEN {"readout_board_id"} ELSE {})
         \cup (IF dataset.rows[i].flag /\ ~KeyKnownBefore(i) THEN {"flange_id"} ELSE {})
  ELSE IF building = "BuildTPCReadoutBoardToChannelMap"
  THEN {"readout_board_id", "channel_number", "channel_id", "plane"}
         \cup (IF ~KeyKnownBefore(i) THEN {"readout_board_slot"} ELSE {})
  ELSE IF building = "BuildSideCRTCalibrationMap" /\ ~dataset.rows[i].flag
  THEN {}
  ELSE AllColumns(building)

\* The access to the database, the read of the column names or the read of a
\* needed column of a row reports an error.
ErrorReported ==
  \/ wdaError # 0
  \/ dataset.header # 0
  \/ \E i \in 1..Len(dataset.rows) :
       ~dataset.rows[i].null /\ dataset.rows[i].bad \in NeededColumns(i)

====
